---- MODULE Spec2Model ----
(***************************************************************************)
(* CCPM (SillyTavern-CCPromptManager): the context-aware template lock     *)
(* engine of src/unnamed/part_001 (lines 1-1460): ChatContext,             *)
(* TemplateStorageAdapter, TemplateLockResolver, TemplateLockManager and   *)
(* the apply / auto-apply part of PromptTemplateManager.                   *)
(*                                                                         *)
(* null / undefined are the string None.  A JavaScript Map or object is a  *)
(* TLA+ function; the one-entry cache Map of ChatContext is a set with at  *)
(* most one element.  A run of synchronous code together with the          *)
(* microtask continuations it queues (awaits of already settled promises)  *)
(* is one action; a step is split only where the code awaits the host      *)
(* (editGroup, saveServiceSettings, render) or the user (Popup.show).      *)
(***************************************************************************)
EXTENDS Integers, Sequences, FiniteSets, TLC

VARIABLES
    hostCtx,        \* which host state is live (selected_group, name2, chat)
    cache,          \* ChatContext.cache: {} or {snapshot}
    cacheAge,       \* Date.now() - ChatContext.cacheTime, capped at CACHE_TTL
    charLocks,      \* extension_settings.CCPM.templateLocks.character
    groupLocks,     \* groups[i].ccpm_template_lock
    chatMeta,       \* per chat: chat_metadata.CCPM.templateLock
    currentLocks,   \* TemplateLockManager.currentLocks
    calls,          \* setLock/clearLock calls suspended in "await editGroup"
    lastCall,       \* the last TemplateStorageAdapter mutator that returned
    prefs,          \* extension_settings.ccPromptManager.prefer*
    autoApplyMode,  \* extension_settings.ccPromptManager.autoApplyMode
    templates,      \* keys of PromptTemplateManager.templates
    oaiPrompts,     \* oai_settings.prompts (identifiers, in order)
    promptOrder,    \* oai_settings.prompt_order: character_id -> order
    handler,        \* the auto-apply handler / manual apply in flight
    rIn,            \* resolver check: the arguments of resolve
    rOut,           \* resolver check: the value resolve returned
    files,          \* the server's data/ccprompts: library.json and backups/
    clock,          \* new Date(), in seconds
    storage,        \* per CCPromptStorage object: saveInProgress, lastLibraryHash
    tasks,          \* the storage operations in flight or returned
    api             \* one apiCall: its attempts and what it returned

vars == <<hostCtx, cache, cacheAge, charLocks, groupLocks, chatMeta,
          currentLocks, calls, lastCall, prefs, autoApplyMode, templates,
          oaiPrompts, promptOrder, handler, rIn, rOut,
          files, clock, storage, tasks, api>>

\* The state of the template library's storage (storage.js).
storageVars == <<files, clock, storage, tasks, api>>

None == "none"

-----------------------------------------------------------------------------
(* storage.js: the constants and the idle state of the library storage     *)

MAX_BACKUPS == 10
MAX_RETRIES == 3

\* The CCPromptStorage objects the extension constructs: CCPromptManager's
\* and CCPromptTemplateManager's. Both name data/ccprompts/library.json.
Instances == {"manager", "templateManager"}

\* The storage operations that can be in flight together.
TaskIds == {1, 2}

\* library.json: the fields the storage reads or writes, and the templates.
Library(modified, tpls) == [modified |-> modified, templates |-> tpls]
\* No library.json on the server (a read answers 404).
Missing == Library(0, "missing")

\* A file of backups/: library-<ts>-<name>.json and its content.
Backup(ts, name, data) == [ts |-> ts, name |-> name, data |-> data]
NoFile == [ts |-> 0, name |-> None]

\* this.lastLibraryHash = null
NoHash == <<>>

NewStorage == [saveInProgress |-> FALSE, lastLibraryHash |-> NoHash]

IdleTask == [op |-> None, inst |-> None, pc |-> "idle", phase |-> None,
             lib |-> Missing, tpl |-> None, newHash |-> NoHash,
             shouldBackup |-> FALSE, ts |-> 0, created |-> FALSE,
             listed |-> {}, toDelete |-> <<>>, rotation |-> None,
             filename |-> NoFile, data |-> Missing, after |-> None,
             result |-> "idle",
             error |-> None, wrote |-> {}, preBackup |-> None]

NoRequest == [endpoint |-> None, retries |-> MAX_RETRIES, log |-> <<>>,
              pc |-> "idle", result |-> None]

\* The second in which the extension starts.
FirstSecond == MAX_BACKUPS + 2

InitStorageIdle ==
    /\ files = [library |-> Library(FirstSecond - 1, "A"), backups |-> {}]
    /\ clock = FirstSecond
    /\ storage = [i \in Instances |-> NewStorage]
    /\ tasks = [id \in TaskIds |-> IdleTask]
    /\ api = NoRequest

-----------------------------------------------------------------------------
(* Program constants                                                       *)

CACHE_TTL == 1000

CHAT_TYPES == [SINGLE |-> "single", GROUP |-> "group"]

SETTING_SOURCES ==
    [CHARACTER |-> "character", CHAT |-> "chat", GROUP |-> "group",
     GROUP_CHAT |-> "group chat"]

AUTO_APPLY_MODES == [NEVER |-> "never", ASK |-> "ask", ALWAYS |-> "always"]

\* Popup.show() of a CONFIRM popup resolves to one of these.
POPUP_RESULT == [AFFIRMATIVE |-> "affirmative", NEGATIVE |-> "negative",
                 CANCELLED |-> "cancelled"]

\* "tmpl.promptOrderCharacterId ?? 100000": the id taken when the template
\* has no promptOrderCharacterId.
DefaultCharacterId == 100000

\* "the same character_id (e.g., 100001) that was captured": the other id a
\* prompt manager's activeCharacter has.
OtherCharacterId == 100001

-----------------------------------------------------------------------------
(* The host (SillyTavern), as far as this code reads it                    *)

\* The templates of the library.  TE was saved with no prompts.
TemplateIds == {"T1", "T2", "TE"}
TidOrNone == TemplateIds \cup {None}

TemplatePrompts ==
    [T1 |-> <<"main">>, T2 |-> <<"main", "nsfw">>, TE |-> <<>>]
TemplatePromptOrder ==
    [T1 |-> <<"main">>, T2 |-> <<>>, TE |-> <<>>]

\* createTemplateFromCurrent: promptManager.activeCharacter.id at the moment
\* each template of the library was captured.
activeCharacterId ==
    [T1 |-> OtherCharacterId, T2 |-> DefaultCharacterId,
     TE |-> DefaultCharacterId]

\* "new PromptTemplate(data)": the constructor destructures name,
\* description, prompts, promptOrder, characterName and id, so the
\* promptOrderCharacterId createTemplateFromCurrent passes is not kept and
\* tmpl.promptOrderCharacterId reads undefined.
promptOrderCharacterId == [t \in TemplateIds |-> None]

\* characters[] of script.js; findIndex is 0-based, -1 when absent.
\* Two cards carry the display name Alice.
characters == <<"Alice", "Bob", "Alice">>

\* groups[] of group-chats.js.
GroupIds == {"g1"}
groups == [g1 |-> [name |-> "Grp", chat_id |-> "gc1"]]

\* Host states: a single chat with Alice, the group g1, and the group g1
\* while groups[] holds a malformed entry (groups.find throws).
HostStates == {"alice", "grp", "broken"}

\* Further host states: another chat of Alice, a chat with Bob, and a chat
\* with the second card named Alice.  this_chid is the index of the active
\* card in characters[].
ScopeHosts == {"alice", "alice2", "bob", "twin", "grp"}

\* The host states of SpecOwner: ghost is a selected group that groups[] no
\* longer holds.
OwnerHosts == {"alice", "grp", "ghost"}

Host ==
    [alice  |-> [selected_group |-> None, name2 |-> "Alice", chatId |-> "a1",
                 metaId |-> "a1", groupsOk |-> TRUE, this_chid |-> 0],
     grp    |-> [selected_group |-> "g1", name2 |-> "Alice", chatId |-> None,
                 metaId |-> "gc1", groupsOk |-> TRUE, this_chid |-> None],
     broken |-> [selected_group |-> "g1", name2 |-> "Alice", chatId |-> None,
                 metaId |-> "gc1", groupsOk |-> FALSE, this_chid |-> None],
     alice2 |-> [selected_group |-> None, name2 |-> "Alice", chatId |-> "a2",
                 metaId |-> "a2", groupsOk |-> TRUE, this_chid |-> 0],
     bob    |-> [selected_group |-> None, name2 |-> "Bob", chatId |-> "b1",
                 metaId |-> "b1", groupsOk |-> TRUE, this_chid |-> 1],
     twin   |-> [selected_group |-> None, name2 |-> "Alice", chatId |-> "t1",
                 metaId |-> "t1", groupsOk |-> TRUE, this_chid |-> 2],
     ghost  |-> [selected_group |-> "g9", name2 |-> "Alice", chatId |-> None,
                 metaId |-> "gc1", groupsOk |-> TRUE, this_chid |-> None]]

ChatIds == {"a1", "a2", "b1", "t1", "gc1"}
CharKeys == {"0", "1", "Grp"}

\* String(characterKey) of a numeric index.
IndexString == [i \in 0..1 |-> IF i = 0 THEN "0" ELSE "1"]

findIndex(name) ==
    IF \E i \in 1..Len(characters) : characters[i] = name
    THEN (CHOOSE i \in 1..Len(characters) :
              characters[i] = name
              /\ \A j \in 1..(i - 1) : characters[j] # name) - 1
    ELSE -1

\* "chId !== -1 ? chId : context.characterName", then String(characterKey).
characterKey(name) ==
    IF findIndex(name) # -1 THEN IndexString[findIndex(name)] ELSE name

-----------------------------------------------------------------------------
(* ChatContext                                                             *)

NullContext ==
    [type |-> None, isGroupChat |-> FALSE, groupId |-> None,
     groupName |-> None, chatId |-> None, characterName |-> None]

\* "groups?.find(x => x.id === groupId)" with "group?.name || null".
findGroup(groupId) ==
    IF groupId \in GroupIds THEN groups[groupId]
    ELSE [name |-> None, chat_id |-> None]

_buildGroupContext(h) ==
    [type |-> CHAT_TYPES.GROUP, isGroupChat |-> TRUE,
     groupId |-> Host[h].selected_group,
     groupName |-> findGroup(Host[h].selected_group).name,
     chatId |-> findGroup(Host[h].selected_group).chat_id,
     characterName |-> findGroup(Host[h].selected_group).name]

_buildSingleContext(h) ==
    [type |-> CHAT_TYPES.SINGLE, isGroupChat |-> FALSE, groupId |-> None,
     groupName |-> None, chatId |-> Host[h].chatId,
     characterName |-> Host[h].name2]

\* groups?.find(...) throws on a malformed groups[] entry.
buildThrows(h) == Host[h].selected_group # None /\ ~Host[h].groupsOk

_buildContext(h) ==
    IF Host[h].selected_group # None
    THEN _buildGroupContext(h) ELSE _buildSingleContext(h)

TheCached(c) == CHOOSE s \in c : TRUE

getCurrent_NoCache(c, age, h) ==
    IF ~buildThrows(h)
    THEN [threw |-> FALSE, context |-> _buildContext(h),
          cache |-> {_buildContext(h)}, age |-> 0, built |-> TRUE]
    ELSE IF c # {}
    THEN [threw |-> FALSE, context |-> TheCached(c), cache |-> c, age |-> age,
          built |-> FALSE]
    ELSE [threw |-> TRUE, context |-> NullContext, cache |-> c, age |-> age,
          built |-> FALSE]

getCurrent_Rethrow(c, age, h) ==
    IF age < CACHE_TTL /\ c # {}
    THEN [threw |-> FALSE, context |-> TheCached(c), cache |-> c, age |-> age,
          built |-> FALSE]
    ELSE IF ~buildThrows(h)
    THEN [threw |-> FALSE, context |-> _buildContext(h),
          cache |-> {_buildContext(h)}, age |-> 0, built |-> TRUE]
    ELSE [threw |-> TRUE, context |-> NullContext, cache |-> c, age |-> age,
          built |-> FALSE]

\* getCurrent(): the value returned (or threw), and the cache it leaves.
getCurrent(c, age, h) ==
    IF age < CACHE_TTL /\ c # {}
    THEN [threw |-> FALSE, context |-> TheCached(c), cache |-> c, age |-> age,
          built |-> FALSE]
    ELSE IF ~buildThrows(h)
    THEN [threw |-> FALSE, context |-> _buildContext(h),
          cache |-> {_buildContext(h)}, age |-> 0, built |-> TRUE]
    ELSE IF c # {}
    THEN [threw |-> FALSE, context |-> TheCached(c), cache |-> c, age |-> age,
          built |-> FALSE]
    ELSE [threw |-> TRUE, context |-> NullContext, cache |-> c, age |-> age,
          built |-> FALSE]

-----------------------------------------------------------------------------
(* TemplateLockResolver                                                    *)

NoLock == [templateId |-> None, source |-> "none"]

Fallback(s) == [CHARACTER |-> "character (fallback)", CHAT |-> "chat (fallback)",
                GROUP |-> "group (fallback)",
                GROUP_CHAT |-> "group chat (fallback)"][s]

_resolveGroupLocks_Swapped(p, locks) ==
    IF p.preferIndividualCharacterInGroup /\ locks.character # None
    THEN [templateId |-> locks.character, source |-> SETTING_SOURCES.CHARACTER]
    ELSE IF ~p.preferGroupOverChat
    THEN IF locks.group # None
         THEN [templateId |-> locks.group, source |-> SETTING_SOURCES.GROUP]
         ELSE IF locks.chat # None
         THEN [templateId |-> locks.chat, source |-> Fallback("GROUP_CHAT")]
         ELSE IF locks.character # None
         THEN [templateId |-> locks.character, source |-> Fallback("CHARACTER")]
         ELSE NoLock
    ELSE IF locks.chat # None
         THEN [templateId |-> locks.chat, source |-> SETTING_SOURCES.GROUP_CHAT]
         ELSE IF locks.group # None
         THEN [templateId |-> locks.group, source |-> Fallback("GROUP")]
         ELSE IF locks.character # None
         THEN [templateId |-> locks.character, source |-> Fallback("CHARACTER")]
         ELSE NoLock

_resolveGroupLocks(p, locks) ==
    IF p.preferIndividualCharacterInGroup /\ locks.character # None
    THEN [templateId |-> locks.character, source |-> SETTING_SOURCES.CHARACTER]
    ELSE IF p.preferGroupOverChat
    THEN IF locks.group # None
         THEN [templateId |-> locks.group, source |-> SETTING_SOURCES.GROUP]
         ELSE IF locks.chat # None
         THEN [templateId |-> locks.chat, source |-> Fallback("GROUP_CHAT")]
         ELSE IF locks.character # None
         THEN [templateId |-> locks.character, source |-> Fallback("CHARACTER")]
         ELSE NoLock
    ELSE IF locks.chat # None
         THEN [templateId |-> locks.chat, source |-> SETTING_SOURCES.GROUP_CHAT]
         ELSE IF locks.group # None
         THEN [templateId |-> locks.group, source |-> Fallback("GROUP")]
         ELSE IF locks.character # None
         THEN [templateId |-> locks.character, source |-> Fallback("CHARACTER")]
         ELSE NoLock

_resolveSingleLocks_Default(p, locks) ==
    IF locks.chat # None
    THEN [templateId |-> locks.chat, source |-> SETTING_SOURCES.CHAT]
    ELSE IF locks.character # None
    THEN [templateId |-> locks.character, source |-> Fallback("CHARACTER")]
    ELSE [templateId |-> "T1", source |-> SETTING_SOURCES.CHAT]

_resolveSingleLocks(p, locks) ==
    IF p.preferCharacterOverChat
    THEN IF locks.character # None
         THEN [templateId |-> locks.character, source |-> SETTING_SOURCES.CHARACTER]
         ELSE IF locks.chat # None
         THEN [templateId |-> locks.chat, source |-> Fallback("CHAT")]
         ELSE NoLock
    ELSE IF locks.chat # None
         THEN [templateId |-> locks.chat, source |-> SETTING_SOURCES.CHAT]
         ELSE IF locks.character # None
         THEN [templateId |-> locks.character, source |-> Fallback("CHARACTER")]
         ELSE NoLock

\* new TemplateLockResolver(p).resolve(context, availableLocks)
resolve(p, context, locks) ==
    IF context.isGroupChat
    THEN _resolveGroupLocks(p, locks) ELSE _resolveSingleLocks(p, locks)

-----------------------------------------------------------------------------
(* TemplateStorageAdapter                                                  *)
(* A mutator returns its boolean, the region it leaves, and whether it     *)
(* triggered the persistence flush of that region before returning.        *)

\* getExtensionSettings() returns extension_settings.CCPM.  The priority
\* preferences are written to and defaulted in
\* extension_settings.ccPromptManager only, so on this object the three
\* prefer* keys are undefined (falsy).
getExtensionSettings ==
    [preferCharacterOverChat |-> FALSE, preferGroupOverChat |-> FALSE,
     preferIndividualCharacterInGroup |-> FALSE]

getCharacterTemplateLock(cl, key) == IF key = None THEN None ELSE cl[key]

setCharacterTemplateLock_KeepFirst(cl, key, templateId) ==
    IF key = None
    THEN [success |-> FALSE, store |-> cl, flushed |-> FALSE]
    ELSE [success |-> TRUE,
          store |-> IF cl[key] # None THEN cl ELSE [cl EXCEPT ![key] = templateId],
          flushed |-> TRUE]

setCharacterTemplateLock_Falsy(cl, key, templateId) ==
    IF key = None \/ key = IndexString[0]
    THEN [success |-> FALSE, store |-> cl, flushed |-> FALSE]
    ELSE [success |-> TRUE, store |-> [cl EXCEPT ![key] = templateId],
          flushed |-> TRUE]

setCharacterTemplateLock(cl, key, templateId) ==
    IF key = None
    THEN [success |-> FALSE, store |-> cl, flushed |-> FALSE]
    ELSE [success |-> TRUE, store |-> [cl EXCEPT ![key] = templateId],
          flushed |-> TRUE]

deleteCharacterTemplateLock(cl, key) ==
    IF key # None /\ cl[key] # None
    THEN [success |-> TRUE, store |-> [cl EXCEPT ![key] = None],
          flushed |-> TRUE]
    ELSE [success |-> FALSE, store |-> cl, flushed |-> FALSE]

\* groups?.find throws on a malformed groups[]: caught, null.
getGroupTemplateLock(gl, h, groupId) ==
    IF groupId = None \/ ~Host[h].groupsOk \/ groupId \notin GroupIds
    THEN None ELSE gl[groupId]

setGroupTemplateLock_NoCheck(gl, h, groupId, templateId) ==
    [suspended |-> TRUE, success |-> FALSE,
     store |-> [g \in DOMAIN gl |-> IF g = groupId THEN templateId ELSE gl[g]]]

\* setGroupTemplateLock up to its "await editGroup(...)": suspended tells
\* whether the call reached the await (the record is written by then).
setGroupTemplateLock(gl, h, groupId, templateId) ==
    IF groupId = None \/ ~Host[h].groupsOk \/ groupId \notin GroupIds
    THEN [suspended |-> FALSE, success |-> FALSE, store |-> gl]
    ELSE [suspended |-> TRUE, success |-> FALSE,
          store |-> [gl EXCEPT ![groupId] = templateId]]

\* deleteGroupTemplateLock up to its "await editGroup(...)".
deleteGroupTemplateLock(gl, h, groupId) ==
    IF groupId = None \/ ~Host[h].groupsOk \/ groupId \notin GroupIds
    THEN [suspended |-> FALSE, success |-> FALSE, store |-> gl]
    ELSE IF gl[groupId] # None
    THEN [suspended |-> TRUE, success |-> FALSE,
          store |-> [gl EXCEPT ![groupId] = None]]
    ELSE [suspended |-> FALSE, success |-> FALSE, store |-> gl]

\* _triggerMetadataSave(): saveMetadataDebounced() inside try/catch.  The
\* module's import list (lines 1-7) does not bind saveMetadataDebounced;
\* saveBound tells whether the name resolves at run time.  When it does
\* not, the ReferenceError is caught and nothing is flushed.
_triggerMetadataSave(saveBound) == saveBound

getChatTemplateLock(cm, h) == cm[Host[h].metaId]

setChatTemplateLock(cm, h, templateId, saveBound) ==
    [success |-> TRUE, store |-> [cm EXCEPT ![Host[h].metaId] = templateId],
     flushed |-> _triggerMetadataSave(saveBound)]

deleteChatTemplateLock(cm, h, saveBound) ==
    IF cm[Host[h].metaId] # None
    THEN [success |-> TRUE, store |-> [cm EXCEPT ![Host[h].metaId] = None],
          flushed |-> _triggerMetadataSave(saveBound)]
    ELSE [success |-> FALSE, store |-> cm, flushed |-> FALSE]

getGroupChatTemplateLock(cm, h, groupId) ==
    IF groupId = None THEN None ELSE cm[Host[h].metaId]

setGroupChatTemplateLock(cm, h, groupId, templateId) ==
    IF groupId = None
    THEN [success |-> FALSE, store |-> cm, flushed |-> FALSE]
    ELSE [success |-> TRUE, store |-> [cm EXCEPT ![Host[h].metaId] = templateId],
          flushed |-> FALSE]

deleteGroupChatTemplateLock(cm, h, groupId) ==
    IF groupId # None /\ cm[Host[h].metaId] # None
    THEN [success |-> TRUE, store |-> [cm EXCEPT ![Host[h].metaId] = None],
          flushed |-> FALSE]
    ELSE [success |-> FALSE, store |-> cm, flushed |-> FALSE]

-----------------------------------------------------------------------------
(* TemplateLockManager: loading and resolving                              *)

_getEmptyLocks == [character |-> None, chat |-> None, group |-> None]

_loadGroupLocks(context, h, cl, gl, cm) ==
    [group |-> IF context.groupId # None
               THEN getGroupTemplateLock(gl, h, context.groupId) ELSE None,
     chat |-> IF context.groupId # None
              THEN getGroupChatTemplateLock(cm, h, context.groupId) ELSE None,
     character |-> IF context.characterName # None
                   THEN getCharacterTemplateLock(cl, characterKey(context.characterName))
                   ELSE None]

_loadSingleLocks_ByName(context, h, cl, gl, cm) ==
    [group |-> None,
     chat |-> IF context.chatId # None THEN getChatTemplateLock(cm, h) ELSE None,
     character |-> IF context.characterName \in DOMAIN cl
                   THEN getCharacterTemplateLock(cl, context.characterName)
                   ELSE None]

_loadSingleLocks(context, h, cl, gl, cm) ==
    [group |-> None,
     chat |-> IF context.chatId # None THEN getChatTemplateLock(cm, h) ELSE None,
     character |-> IF context.characterName # None
                   THEN getCharacterTemplateLock(cl, characterKey(context.characterName))
                   ELSE None]

\* loadCurrentLocks(): getCurrent(), then the loads.  When getCurrent
\* throws, currentLocks keeps its value (locks is not read by the caller).
loadLocksOf(g, h, cl, gl, cm) ==
    [threw |-> g.threw, cache |-> g.cache, age |-> g.age, built |-> g.built,
     context |-> g.context,
     locks |-> IF g.threw THEN _getEmptyLocks
               ELSE IF g.context.isGroupChat
               THEN _loadGroupLocks(g.context, h, cl, gl, cm)
               ELSE _loadSingleLocks(g.context, h, cl, gl, cm)]

loadCurrentLocks(c, age, h, cl, gl, cm) ==
    loadLocksOf(getCurrent(c, age, h), h, cl, gl, cm)

\* getLockToApply(): getCurrent() again, a resolver over the storage
\* adapter's settings object, resolve(context, this.currentLocks).
resolveFor(g, locks) ==
    [threw |-> g.threw, cache |-> g.cache, age |-> g.age,
     lock |-> IF g.threw THEN NoLock
              ELSE resolve(getExtensionSettings, g.context, locks)]

getLockToApply(c, age, h, locks) == resolveFor(getCurrent(c, age, h), locks)

\* PromptTemplateManager.getEffectiveLock(): loadCurrentLocks, then
\* getLockToApply.
effectiveLockOf(l, a) ==
    [threw |-> l.threw \/ a.threw, cache |-> a.cache, age |-> a.age,
     built |-> l.built, context |-> l.context, locks |-> l.locks,
     lock |-> a.lock]

lockToApplyAfter(l, h) ==
    effectiveLockOf(l, getLockToApply(l.cache, l.age, h, l.locks))

getEffectiveLock(c, age, h, cl, gl, cm) ==
    lockToApplyAfter(loadCurrentLocks(c, age, h, cl, gl, cm), h)

-----------------------------------------------------------------------------
(* Values the variables hold while a specification does not use them       *)

Prefs == [preferCharacterOverChat : BOOLEAN, preferGroupOverChat : BOOLEAN,
          preferIndividualCharacterInGroup : BOOLEAN]

\* initializeSettings(): the defaults of extension_settings.ccPromptManager.
defaultSettings ==
    [autoApplyMode |-> AUTO_APPLY_MODES.ASK,
     preferCharacterOverChat |-> TRUE, preferGroupOverChat |-> TRUE,
     preferIndividualCharacterInGroup |-> FALSE]

DefaultPrefs ==
    [preferCharacterOverChat |-> defaultSettings.preferCharacterOverChat,
     preferGroupOverChat |-> defaultSettings.preferGroupOverChat,
     preferIndividualCharacterInGroup |->
         defaultSettings.preferIndividualCharacterInGroup]

NoLocksStored ==
    /\ charLocks = [k \in CharKeys |-> None]
    /\ groupLocks = [g \in GroupIds |-> None]
    /\ chatMeta = [c \in ChatIds |-> None]

NoCall == [fn |-> None, success |-> FALSE, flushed |-> FALSE]

\* handler: the handler run (or manual apply) in flight, or the last one.
\*   pc          idle | dialog (in Popup.show) | save (in saveServiceSettings)
\*               | render (in promptManager.render) | rejected (it threw)
\*   kind        chat | preset | manual
\*   mode        the autoApplyMode the handler read
\*   templateId  effectiveLock.templateId / the id applied
\*   popup       shown, or what Popup.show() resolved to
\*   result      what applyTemplate returned, with the error it toasted
\*   fresh       the snapshot its locks were loaded for was built by this run
IdleHandler ==
    [pc |-> "idle", kind |-> None, mode |-> None, templateId |-> None,
     popup |-> None, result |-> None, fresh |-> FALSE]

\* The live prompt state of a fresh chat-completion preset.
HostPrompts == <<"main", "jailbreak">>
HostPromptOrder == (DefaultCharacterId :> <<"main", "jailbreak">>)

InitContext ==
    /\ InitStorageIdle
    /\ hostCtx = "alice"
    /\ cache = {}
    /\ cacheAge = CACHE_TTL
    /\ currentLocks = _getEmptyLocks

InitLive ==
    /\ templates = TemplateIds
    /\ oaiPrompts = HostPrompts
    /\ promptOrder = HostPromptOrder
    /\ handler = IdleHandler

InitResolverIdle ==
    /\ rIn = [isGroupChat |-> FALSE, locks |-> _getEmptyLocks,
              prefs |-> DefaultPrefs]
    /\ rOut = [templateId |-> None, source |-> "pending"]

-----------------------------------------------------------------------------
(* SpecResolve: TemplateLockResolver.resolve as a pure function            *)

Locks == [character : TidOrNone, chat : TidOrNone, group : TidOrNone]

InitResolve ==
    /\ InitContext /\ NoLocksStored /\ InitLive
    /\ calls = {} /\ lastCall = NoCall
    /\ prefs = DefaultPrefs /\ autoApplyMode = defaultSettings.autoApplyMode
    /\ rIn \in [isGroupChat : BOOLEAN, locks : Locks, prefs : Prefs]
    /\ rOut = [templateId |-> None, source |-> "pending"]

\* new TemplateLockResolver(prefs).resolve(context, availableLocks)
Resolve ==
    /\ rOut.source = "pending"
    /\ rOut' = resolve(rIn.prefs, [isGroupChat |-> rIn.isGroupChat], rIn.locks)
    /\ UNCHANGED <<storageVars, hostCtx, cache, cacheAge, charLocks, groupLocks, chatMeta,
                   currentLocks, calls, lastCall, prefs, autoApplyMode,
                   templates, oaiPrompts, promptOrder, handler, rIn>>

NextResolve == Resolve

SpecResolve == InitResolve /\ [][NextResolve]_vars

\* The ranking a preference stands for, highest first.
Ranking(p, isGroupChat) ==
    IF isGroupChat
    THEN IF p.preferIndividualCharacterInGroup
         THEN IF p.preferGroupOverChat
              THEN <<"Character", "Group", "GroupSession">>
              ELSE <<"Character", "GroupSession", "Group">>
         ELSE IF p.preferGroupOverChat
              THEN <<"Group", "GroupSession", "Character">>
              ELSE <<"GroupSession", "Group", "Character">>
    ELSE IF p.preferCharacterOverChat
         THEN <<"Character", "Chat">> ELSE <<"Chat", "Character">>

LockOfKind(kind, locks) ==
    IF kind = "Character" THEN locks.character
    ELSE IF kind = "Group" THEN locks.group ELSE locks.chat

\* The scope kind a source label names, with or without " (fallback)".
KindOfSource(source) ==
    IF source \in {"character", "character (fallback)"} THEN "Character"
    ELSE IF source \in {"chat", "chat (fallback)"} THEN "Chat"
    ELSE IF source \in {"group", "group (fallback)"} THEN "Group"
    ELSE IF source \in {"group chat", "group chat (fallback)"} THEN "GroupSession"
    ELSE "none"

HighestRanked(rank, locks) ==
    LET held == {i \in 1..Len(rank) : LockOfKind(rank[i], locks) # None} IN
    IF held = {} THEN [templateId |-> None, kind |-> "none"]
    ELSE LET i == CHOOSE k \in held : \A j \in held : k <= j IN
         [templateId |-> LockOfKind(rank[i], locks), kind |-> rank[i]]

\* C3: for every preference and every set of present locks, resolve returns
\* the template id and the source scope of the highest-ranked scope kind of
\* the context's family that holds a lock, and none exactly when no scope of
\* that family holds one.
C3_ResolvePicksHighestRanked ==
    rOut.source # "pending" =>
        LET want == HighestRanked(Ranking(rIn.prefs, rIn.isGroupChat), rIn.locks) IN
        /\ rOut.templateId = want.templateId
        /\ KindOfSource(rOut.source) = want.kind
        /\ (rOut.templateId = None) <=>
               (\A i \in 1..Len(Ranking(rIn.prefs, rIn.isGroupChat)) :
                    LockOfKind(Ranking(rIn.prefs, rIn.isGroupChat)[i], rIn.locks) = None)

\* C3 witness: a group context in which the top-ranked scope holds no lock
\* and a lower-ranked one supplied the result.
C3_Witness ==
    /\ rOut.source = "group chat (fallback)"
    /\ rIn.isGroupChat /\ rIn.locks.group = None /\ rIn.locks.chat = "T2"
    /\ rIn.locks.character = "T1"

-----------------------------------------------------------------------------
(* The host acting on its own                                              *)

\* The user switches character, chat or group; groups[] may turn malformed.
SwitchContext(h) ==
    /\ h # hostCtx
    /\ hostCtx' = h
    /\ UNCHANGED <<storageVars, cache, cacheAge, charLocks, groupLocks, chatMeta,
                   currentLocks, calls, lastCall, prefs, autoApplyMode,
                   templates, oaiPrompts, promptOrder, handler, rIn, rOut>>

\* CACHE_TTL ms or more pass since the snapshot was cached.
Tick ==
    /\ cacheAge < CACHE_TTL
    /\ cacheAge' = CACHE_TTL
    /\ UNCHANGED <<storageVars, hostCtx, cache, charLocks, groupLocks, chatMeta,
                   currentLocks, calls, lastCall, prefs, autoApplyMode,
                   templates, oaiPrompts, promptOrder, handler, rIn, rOut>>

-----------------------------------------------------------------------------
(* TemplateLockManager.setLock / clearLock                                 *)

\* How many setLock/clearLock calls may be suspended in editGroup at once.
MaxCalls == 2

\* The templates the user locks in SpecLock.
LockChoices == {"T1", "T2"}

Targets == {"character", "chat", "group"}

\* setLock(target, templateId) from after getCurrent() up to its return, or
\* up to the await of editGroup (suspended).  fn names the adapter mutator
\* it called, None when it called none.
setLock(target, templateId, context, h, cl, gl, cm, mirror, saveBound) ==
    IF target = "character"
    THEN IF context.characterName # None
         THEN LET r == setCharacterTemplateLock(cl, characterKey(context.characterName),
                                                templateId) IN
              [suspended |-> FALSE, success |-> r.success, charLocks |-> r.store,
               groupLocks |-> gl, chatMeta |-> cm,
               currentLocks |-> IF r.success
                                THEN [mirror EXCEPT !.character = templateId]
                                ELSE mirror,
               fn |-> "setCharacterTemplateLock", flushed |-> r.flushed]
         ELSE [suspended |-> FALSE, success |-> FALSE, charLocks |-> cl,
               groupLocks |-> gl, chatMeta |-> cm, currentLocks |-> mirror,
               fn |-> None, flushed |-> FALSE]
    ELSE IF target = "chat"
    THEN LET r == IF context.isGroupChat
                  THEN setGroupChatTemplateLock(cm, h, context.groupId, templateId)
                  ELSE setChatTemplateLock(cm, h, templateId, saveBound) IN
         [suspended |-> FALSE, success |-> r.success, charLocks |-> cl,
          groupLocks |-> gl, chatMeta |-> r.store,
          currentLocks |-> IF r.success THEN [mirror EXCEPT !.chat = templateId]
                           ELSE mirror,
          fn |-> IF context.isGroupChat THEN "setGroupChatTemplateLock"
                 ELSE "setChatTemplateLock",
          flushed |-> r.flushed]
    ELSE IF context.isGroupChat /\ context.groupId # None
    THEN LET r == setGroupTemplateLock(gl, h, context.groupId, templateId) IN
         [suspended |-> r.suspended, success |-> r.success, charLocks |-> cl,
          groupLocks |-> r.store, chatMeta |-> cm, currentLocks |-> mirror,
          fn |-> "setGroupTemplateLock", flushed |-> FALSE]
    ELSE [suspended |-> FALSE, success |-> FALSE, charLocks |-> cl,
          groupLocks |-> gl, chatMeta |-> cm, currentLocks |-> mirror,
          fn |-> None, flushed |-> FALSE]

\* clearLock(target), in the same form.
clearLock(target, context, h, cl, gl, cm, mirror, saveBound) ==
    IF target = "character"
    THEN IF context.characterName # None
         THEN LET r == deleteCharacterTemplateLock(cl, characterKey(context.characterName)) IN
              [suspended |-> FALSE, success |-> r.success, charLocks |-> r.store,
               groupLocks |-> gl, chatMeta |-> cm,
               currentLocks |-> IF r.success
                                THEN [mirror EXCEPT !.character = None]
                                ELSE mirror,
               fn |-> "deleteCharacterTemplateLock", flushed |-> r.flushed]
         ELSE [suspended |-> FALSE, success |-> FALSE, charLocks |-> cl,
               groupLocks |-> gl, chatMeta |-> cm, currentLocks |-> mirror,
               fn |-> None, flushed |-> FALSE]
    ELSE IF target = "chat"
    THEN LET r == IF context.isGroupChat
                  THEN deleteGroupChatTemplateLock(cm, h, context.groupId)
                  ELSE deleteChatTemplateLock(cm, h, saveBound) IN
         [suspended |-> FALSE, success |-> r.success, charLocks |-> cl,
          groupLocks |-> gl, chatMeta |-> r.store,
          currentLocks |-> IF r.success THEN [mirror EXCEPT !.chat = None]
                           ELSE mirror,
          fn |-> IF context.isGroupChat THEN "deleteGroupChatTemplateLock"
                 ELSE "deleteChatTemplateLock",
          flushed |-> r.flushed]
    ELSE IF context.isGroupChat /\ context.groupId # None
    THEN LET r == deleteGroupTemplateLock(gl, h, context.groupId) IN
         [suspended |-> r.suspended, success |-> r.success, charLocks |-> cl,
          groupLocks |-> r.store, chatMeta |-> cm, currentLocks |-> mirror,
          fn |-> "deleteGroupTemplateLock", flushed |-> FALSE]
    ELSE [suspended |-> FALSE, success |-> FALSE, charLocks |-> cl,
          groupLocks |-> gl, chatMeta |-> cm, currentLocks |-> mirror,
          fn |-> None, flushed |-> FALSE]

\* The state a setLock/clearLock result r leaves; op and templateId are what
\* the suspended call still has to mirror when editGroup returns.  Two
\* suspended calls with the same op and template id are one element of
\* calls: they wrote the same record and resume to the same assignment.
LockCallLeaves(r, op, templateId) ==
    /\ charLocks' = r.charLocks
    /\ groupLocks' = r.groupLocks
    /\ chatMeta' = r.chatMeta
    /\ currentLocks' = r.currentLocks
    /\ calls' = IF r.suspended
                THEN calls \cup {[op |-> op, templateId |-> templateId]}
                ELSE calls
    /\ UNCHANGED lastCall

\* PromptTemplateManager.lockTemplate(templateId, target): the template
\* must exist; then setLock.  A getCurrent() that throws rejects the call
\* and leaves every variable as it was.
lockTemplate(target, templateId, saveBound) ==
    LET g == getCurrent(cache, cacheAge, hostCtx) IN
    /\ templateId \in templates
    /\ ~g.threw
    /\ Cardinality(calls) < MaxCalls
    /\ cache' = g.cache
    /\ cacheAge' = g.age
    /\ LockCallLeaves(setLock(target, templateId, g.context, hostCtx, charLocks,
                              groupLocks, chatMeta, currentLocks, saveBound),
                      "set", templateId)
    /\ UNCHANGED <<storageVars, hostCtx, prefs, autoApplyMode, templates, oaiPrompts,
                   promptOrder, handler, rIn, rOut>>

\* PromptTemplateManager.clearTemplateLock(target): clearLock.
clearTemplateLock(target, saveBound) ==
    LET g == getCurrent(cache, cacheAge, hostCtx) IN
    /\ ~g.threw
    /\ Cardinality(calls) < MaxCalls
    /\ cache' = g.cache
    /\ cacheAge' = g.age
    /\ LockCallLeaves(clearLock(target, g.context, hostCtx, charLocks, groupLocks,
                                chatMeta, currentLocks, saveBound),
                      "clear", None)
    /\ UNCHANGED <<storageVars, hostCtx, prefs, autoApplyMode, templates, oaiPrompts,
                   promptOrder, handler, rIn, rOut>>

\* What a resumed setLock/clearLock writes to this.currentLocks.group.
mirrorGroup(mirror, c) == [mirror EXCEPT !.group = c.templateId]

\* "await editGroup(...)" of a suspended call returns (ok) or throws: the
\* adapter returns true / false, and on true the call mirrors its own
\* template id into currentLocks.group.
EditGroupReturns(c, ok) ==
    /\ c \in calls
    /\ calls' = calls \ {c}
    /\ currentLocks' = IF ok THEN mirrorGroup(currentLocks, c) ELSE currentLocks
    /\ UNCHANGED <<storageVars, hostCtx, cache, cacheAge, charLocks, groupLocks, chatMeta,
                   lastCall, prefs, autoApplyMode, templates, oaiPrompts,
                   promptOrder, handler, rIn, rOut>>

\* The UI calls PromptTemplateManager.getEffectiveLock() to render.
UiGetEffectiveLock ==
    LET e == getEffectiveLock(cache, cacheAge, hostCtx, charLocks, groupLocks,
                              chatMeta) IN
    /\ ~e.threw
    /\ cache' = e.cache
    /\ cacheAge' = e.age
    /\ currentLocks' = e.locks
    /\ <<cache', cacheAge', currentLocks'>> # <<cache, cacheAge, currentLocks>>
    /\ UNCHANGED <<storageVars, hostCtx, charLocks, groupLocks, chatMeta, calls, lastCall,
                   prefs, autoApplyMode, templates, oaiPrompts, promptOrder,
                   handler, rIn, rOut>>

-----------------------------------------------------------------------------
(* PromptTemplateManager: applyTemplate and the auto-apply handlers        *)

\* "const targetCharacterId = tmpl.promptOrderCharacterId ?? 100000"
targetCharacterId(templateId) ==
    IF promptOrderCharacterId[templateId] # None
    THEN promptOrderCharacterId[templateId] ELSE DefaultCharacterId

\* The prompt_order table once the template's order is restored into it.
restoreOrder(templateId, order) ==
    IF Len(TemplatePromptOrder[templateId]) > 0
    THEN [c \in DOMAIN order \cup {targetCharacterId(templateId)} |->
              IF c = targetCharacterId(templateId)
              THEN TemplatePromptOrder[templateId] ELSE order[c]]
    ELSE order

applyTemplate_Unchecked(templateId, tmpls, pm, prompts, order) ==
    IF ~pm
    THEN [suspended |-> FALSE, result |-> "false: PromptManager not available",
          prompts |-> prompts, order |-> order]
    ELSE [suspended |-> TRUE, result |-> None,
          prompts |-> TemplatePrompts[templateId],
          order |-> restoreOrder(templateId, order)]

applyTemplate_Appending(templateId, tmpls, pm, prompts, order) ==
    IF templateId \notin tmpls
    THEN [suspended |-> FALSE, result |-> "false: Template not found",
          prompts |-> prompts, order |-> order]
    ELSE [suspended |-> TRUE, result |-> None,
          prompts |-> prompts \o TemplatePrompts[templateId],
          order |-> restoreOrder(templateId, order)]

\* applyTemplate(templateId) up to "await promptManager.saveServiceSettings()"
\* (suspended), or to the early return.  pm: promptManager is set.
applyTemplate(templateId, tmpls, pm, prompts, order) ==
    IF templateId \notin tmpls
    THEN [suspended |-> FALSE, result |-> "false: Template not found",
          prompts |-> prompts, order |-> order]
    ELSE IF ~pm
    THEN [suspended |-> FALSE, result |-> "false: PromptManager not available",
          prompts |-> prompts, order |-> order]
    ELSE [suspended |-> TRUE, result |-> None,
          prompts |-> TemplatePrompts[templateId],
          order |-> restoreOrder(templateId, order)]

Returned(hd) ==
    IF hd.result = None THEN None
    ELSE IF hd.result = "true" THEN "true" ELSE "false"

\* A run calls applyTemplate(templateId): where that leaves it.
applyLeaves(run, templateId, a) ==
    [handler |-> IF a.suspended
                 THEN [run EXCEPT !.pc = "save", !.templateId = templateId]
                 ELSE [run EXCEPT !.pc = "idle", !.templateId = templateId,
                                  !.result = a.result],
     prompts |-> a.prompts, order |-> a.order]

startApply(run, templateId, pm) ==
    applyLeaves(run, templateId,
                applyTemplate(templateId, templates, pm, oaiPrompts, promptOrder))

noApply(run) == [handler |-> run, prompts |-> oaiPrompts, order |-> promptOrder]

\* ChatContext.invalidate()
invalidate_Kept(c, age) == [cache |-> c, age |-> age]

invalidate(c, age) == [cache |-> {}, age |-> CACHE_TTL]

\* "if (autoApplyMode === AUTO_APPLY_MODES.NEVER) return;"
autoApplySkips_Off(mode) == FALSE

autoApplySkips(mode) == mode = AUTO_APPLY_MODES.NEVER

\* "if (autoApplyMode === AUTO_APPLY_MODES.ASK)": the branch that shows the
\* popup; the other branch applies at once.
asksFirst_Always(mode) == TRUE

asksFirst(mode) == mode = AUTO_APPLY_MODES.ASK

\* "if (result === POPUP_RESULT.AFFIRMATIVE)"
popupAffirmed_Loose(result) == result # POPUP_RESULT.NEGATIVE

popupAffirmed(result) == result = POPUP_RESULT.AFFIRMATIVE

applyLocked_Fixed(run, templateId, pm) ==
    IF templateId = None
    THEN noApply(run)
    ELSE IF asksFirst(autoApplyMode)
    THEN noApply([run EXCEPT !.pc = "dialog", !.popup = "shown",
                             !.templateId = "T1"])
    ELSE startApply(run, "T1", pm)

\* Both handlers from "if (!effectiveLock.templateId) return" on: the
\* template lookup, then the popup (mode Ask) or the apply (mode Always).
applyLocked(run, templateId, pm) ==
    IF templateId = None
    THEN noApply(run)
    ELSE IF templateId \notin templates
    THEN noApply([run EXCEPT !.templateId = templateId])
    ELSE IF asksFirst(autoApplyMode)
    THEN noApply([run EXCEPT !.pc = "dialog", !.popup = "shown",
                             !.templateId = templateId])
    ELSE startApply(run, templateId, pm)

chatRun(l) ==
    [IdleHandler EXCEPT !.kind = "chat", !.mode = autoApplyMode,
                        !.fresh = l.built]

\* handleChatChange() from "const effectiveLock = await getEffectiveLock()".
chatChangeResolved(pm, l, e) ==
    [cache |-> e.cache, age |-> e.age, locks |-> e.locks]
        @@ applyLocked(chatRun(l), e.lock.templateId, pm)

\* handleChatChange() after "await this.lockManager.loadCurrentLocks()".
chatChangeLoaded(pm, l) ==
    IF l.threw
    THEN [cache |-> l.cache, age |-> l.age, locks |-> currentLocks]
         @@ noApply([IdleHandler EXCEPT !.pc = "rejected", !.kind = "chat"])
    ELSE IF autoApplySkips(autoApplyMode)
    THEN [cache |-> l.cache, age |-> l.age, locks |-> l.locks]
         @@ noApply(chatRun(l))
    ELSE chatChangeResolved(pm, l,
             getEffectiveLock(l.cache, l.age, hostCtx, charLocks, groupLocks,
                              chatMeta))

chatChangeInvalidated(pm, i) ==
    chatChangeLoaded(pm, loadCurrentLocks(i.cache, i.age, hostCtx, charLocks,
                                          groupLocks, chatMeta))

\* handleChatChange() up to its first suspension or its return.
handleChatChange(pm) == chatChangeInvalidated(pm, invalidate(cache, cacheAge))

presetRun(e) ==
    [IdleHandler EXCEPT !.kind = "preset", !.mode = autoApplyMode,
                        !.fresh = e.built]

\* handlePresetChange() from "const effectiveLock = await getEffectiveLock()".
presetChangeResolved(pm, e) ==
    IF e.threw
    THEN [cache |-> e.cache, age |-> e.age, locks |-> currentLocks]
         @@ noApply([IdleHandler EXCEPT !.pc = "rejected", !.kind = "preset",
                                       !.mode = autoApplyMode])
    ELSE [cache |-> e.cache, age |-> e.age, locks |-> e.locks]
         @@ applyLocked(presetRun(e), e.lock.templateId, pm)

\* handlePresetChange() up to its first suspension or its return.
handlePresetChange(pm) ==
    IF autoApplySkips(autoApplyMode)
    THEN [cache |-> cache, age |-> cacheAge, locks |-> currentLocks]
         @@ noApply([IdleHandler EXCEPT !.kind = "preset",
                                       !.mode = autoApplyMode])
    ELSE presetChangeResolved(pm,
             getEffectiveLock(cache, cacheAge, hostCtx, charLocks, groupLocks,
                              chatMeta))

HandlerLeaves(o) ==
    /\ cache' = o.cache
    /\ cacheAge' = o.age
    /\ currentLocks' = o.locks
    /\ handler' = o.handler
    /\ oaiPrompts' = o.prompts
    /\ promptOrder' = o.order
    /\ UNCHANGED <<storageVars, hostCtx, charLocks, groupLocks, chatMeta, calls, lastCall,
                   prefs, autoApplyMode, templates, rIn, rOut>>

\* The host emits CHAT_CHANGED.
ChatChanged(pm) ==
    /\ handler.pc \in {"idle", "rejected"}
    /\ HandlerLeaves(handleChatChange(pm))

\* The host emits PRESET_CHANGED.
PresetChanged(pm) ==
    /\ handler.pc \in {"idle", "rejected"}
    /\ HandlerLeaves(handlePresetChange(pm))

\* "const result = await popup.show()" resumes with the user's answer.
PopupReturns(result, pm) ==
    /\ handler.pc = "dialog"
    /\ LET run == [handler EXCEPT !.pc = "idle", !.popup = result]
           o == IF popupAffirmed(result)
                THEN startApply(run, handler.templateId, pm) ELSE noApply(run)
       IN  /\ handler' = o.handler
           /\ oaiPrompts' = o.prompts
           /\ promptOrder' = o.order
    /\ UNCHANGED <<storageVars, hostCtx, cache, cacheAge, charLocks, groupLocks, chatMeta,
                   currentLocks, calls, lastCall, prefs, autoApplyMode,
                   templates, rIn, rOut>>

SaveServiceSettingsReturns_RenderAnyway(ok) ==
    /\ handler.pc = "save"
    /\ handler' = [handler EXCEPT !.pc = "render"]
    /\ UNCHANGED <<storageVars, hostCtx, cache, cacheAge, charLocks, groupLocks, chatMeta,
                   currentLocks, calls, lastCall, prefs, autoApplyMode,
                   templates, oaiPrompts, promptOrder, rIn, rOut>>

\* "await promptManager.saveServiceSettings()" returns or throws; a throw is
\* caught by applyTemplate, which returns false without rendering.
SaveServiceSettingsReturns(ok) ==
    /\ handler.pc = "save"
    /\ handler' = IF ok THEN [handler EXCEPT !.pc = "render"]
                  ELSE [handler EXCEPT !.pc = "idle",
                                       !.result = "false: Failed to apply template"]
    /\ UNCHANGED <<storageVars, hostCtx, cache, cacheAge, charLocks, groupLocks, chatMeta,
                   currentLocks, calls, lastCall, prefs, autoApplyMode,
                   templates, oaiPrompts, promptOrder, rIn, rOut>>

\* "await promptManager.render()" returns or throws; applyTemplate returns.
RenderReturns(ok) ==
    /\ handler.pc = "render"
    /\ handler' = [handler EXCEPT !.pc = "idle",
                       !.result = IF ok THEN "true"
                                  ELSE "false: Failed to apply template"]
    /\ UNCHANGED <<storageVars, hostCtx, cache, cacheAge, charLocks, groupLocks, chatMeta,
                   currentLocks, calls, lastCall, prefs, autoApplyMode,
                   templates, oaiPrompts, promptOrder, rIn, rOut>>

\* window.ccpmApplyTemplate(id): the user applies a template by hand.
ManualApply(templateId, pm) ==
    /\ handler.pc \in {"idle", "rejected"}
    /\ LET o == startApply([IdleHandler EXCEPT !.kind = "manual"], templateId, pm)
       IN  /\ handler' = o.handler
           /\ oaiPrompts' = o.prompts
           /\ promptOrder' = o.order
    /\ UNCHANGED <<storageVars, hostCtx, cache, cacheAge, charLocks, groupLocks, chatMeta,
                   currentLocks, calls, lastCall, prefs, autoApplyMode,
                   templates, rIn, rOut>>

\* window.ccpmSetAutoApplyMode(mode)
ccpmSetAutoApplyMode(mode) ==
    /\ mode # autoApplyMode
    /\ autoApplyMode' = mode
    /\ UNCHANGED <<storageVars, hostCtx, cache, cacheAge, charLocks, groupLocks, chatMeta,
                   currentLocks, calls, lastCall, prefs, templates, oaiPrompts,
                   promptOrder, handler, rIn, rOut>>

\* deleteTemplate(id)
deleteTemplate(id) ==
    /\ id \in templates
    /\ templates' = templates \ {id}
    /\ UNCHANGED <<storageVars, hostCtx, cache, cacheAge, charLocks, groupLocks, chatMeta,
                   currentLocks, calls, lastCall, prefs, autoApplyMode,
                   oaiPrompts, promptOrder, handler, rIn, rOut>>

-----------------------------------------------------------------------------
(* SpecLock: locking and unlocking while the context changes               *)

InitLock ==
    /\ InitContext /\ NoLocksStored /\ InitLive /\ InitResolverIdle
    /\ calls = {} /\ lastCall = NoCall
    /\ prefs = DefaultPrefs /\ autoApplyMode = defaultSettings.autoApplyMode

NextLock ==
    \/ \E h \in HostStates : SwitchContext(h)
    \/ Tick
    \/ \E target \in Targets, t \in LockChoices, saveBound \in BOOLEAN :
           lockTemplate(target, t, saveBound)
    \/ \E target \in Targets, saveBound \in BOOLEAN :
           clearTemplateLock(target, saveBound)
    \/ \E c \in calls, ok \in BOOLEAN : EditGroupReturns(c, ok)
    \/ UiGetEffectiveLock

SpecLock == InitLock /\ [][NextLock]_vars

-----------------------------------------------------------------------------
(* SpecAuto: auto-apply and manual apply over the locks a settings         *)
(* document holds at start-up                                              *)

\* The locks stored when the extension starts: T1, the empty template or
\* nothing on Alice's chat, T2 on the group.
InitAuto ==
    /\ InitContext /\ InitLive /\ InitResolverIdle
    /\ calls = {} /\ lastCall = NoCall
    /\ prefs = DefaultPrefs /\ autoApplyMode = defaultSettings.autoApplyMode
    /\ charLocks = [k \in CharKeys |-> None]
    /\ groupLocks = [k \in GroupIds |-> "T2"]
    /\ \E c \in {None, "T1", "TE"} :
           chatMeta = [k \in ChatIds |-> IF k = "a1" THEN c ELSE None]

\* The templates the user deletes in SpecAuto.
Deletable == {"T2"}

NextAuto ==
    \/ \E h \in HostStates : SwitchContext(h)
    \/ Tick
    \/ \E pm \in BOOLEAN : ChatChanged(pm)
    \/ \E pm \in BOOLEAN : PresetChanged(pm)
    \/ \E r \in {POPUP_RESULT.AFFIRMATIVE, POPUP_RESULT.NEGATIVE,
                 POPUP_RESULT.CANCELLED}, pm \in BOOLEAN : PopupReturns(r, pm)
    \/ \E ok \in BOOLEAN : SaveServiceSettingsReturns(ok)
    \/ \E ok \in BOOLEAN : RenderReturns(ok)
    \/ \E t \in TemplateIds, pm \in BOOLEAN : ManualApply(t, pm)
    \/ \E m \in {AUTO_APPLY_MODES.NEVER, AUTO_APPLY_MODES.ASK,
                 AUTO_APPLY_MODES.ALWAYS} : ccpmSetAutoApplyMode(m)
    \/ \E t \in Deletable : deleteTemplate(t)

SpecAuto == InitAuto /\ [][NextAuto]_vars

-----------------------------------------------------------------------------
(* SpecStore: the mutators of TemplateStorageAdapter called one by one     *)

AdapterKeys == {"0", "Grp", None}
AdapterGroups == GroupIds \cup {None}

Returns(fn, r) == lastCall' = [fn |-> fn, success |-> r.success, flushed |-> r.flushed]

CallSetCharacterTemplateLock(key, t) ==
    LET r == setCharacterTemplateLock(charLocks, key, t) IN
    /\ charLocks' = r.store
    /\ Returns("setCharacterTemplateLock", r)
    /\ UNCHANGED <<storageVars, hostCtx, cache, cacheAge, groupLocks, chatMeta, currentLocks,
                   calls, prefs, autoApplyMode, templates, oaiPrompts,
                   promptOrder, handler, rIn, rOut>>

CallDeleteCharacterTemplateLock(key) ==
    LET r == deleteCharacterTemplateLock(charLocks, key) IN
    /\ charLocks' = r.store
    /\ Returns("deleteCharacterTemplateLock", r)
    /\ UNCHANGED <<storageVars, hostCtx, cache, cacheAge, groupLocks, chatMeta, currentLocks,
                   calls, prefs, autoApplyMode, templates, oaiPrompts,
                   promptOrder, handler, rIn, rOut>>

CallSetChatTemplateLock(t, saveBound) ==
    LET r == setChatTemplateLock(chatMeta, hostCtx, t, saveBound) IN
    /\ chatMeta' = r.store
    /\ Returns("setChatTemplateLock", r)
    /\ UNCHANGED <<storageVars, hostCtx, cache, cacheAge, charLocks, groupLocks, currentLocks,
                   calls, prefs, autoApplyMode, templates, oaiPrompts,
                   promptOrder, handler, rIn, rOut>>

CallDeleteChatTemplateLock(saveBound) ==
    LET r == deleteChatTemplateLock(chatMeta, hostCtx, saveBound) IN
    /\ chatMeta' = r.store
    /\ Returns("deleteChatTemplateLock", r)
    /\ UNCHANGED <<storageVars, hostCtx, cache, cacheAge, charLocks, groupLocks, currentLocks,
                   calls, prefs, autoApplyMode, templates, oaiPrompts,
                   promptOrder, handler, rIn, rOut>>

CallSetGroupChatTemplateLock(g, t) ==
    LET r == setGroupChatTemplateLock(chatMeta, hostCtx, g, t) IN
    /\ chatMeta' = r.store
    /\ Returns("setGroupChatTemplateLock", r)
    /\ UNCHANGED <<storageVars, hostCtx, cache, cacheAge, charLocks, groupLocks, currentLocks,
                   calls, prefs, autoApplyMode, templates, oaiPrompts,
                   promptOrder, handler, rIn, rOut>>

CallDeleteGroupChatTemplateLock(g) ==
    LET r == deleteGroupChatTemplateLock(chatMeta, hostCtx, g) IN
    /\ chatMeta' = r.store
    /\ Returns("deleteGroupChatTemplateLock", r)
    /\ UNCHANGED <<storageVars, hostCtx, cache, cacheAge, charLocks, groupLocks, currentLocks,
                   calls, prefs, autoApplyMode, templates, oaiPrompts,
                   promptOrder, handler, rIn, rOut>>

\* setGroupTemplateLock / deleteGroupTemplateLock: an early "return false",
\* or the record written and the call suspended in editGroup.
GroupCallLeaves(fn, r, op, t) ==
    /\ groupLocks' = r.store
    /\ calls' = IF r.suspended THEN calls \cup {[op |-> op, templateId |-> t]}
                ELSE calls
    /\ lastCall' = IF r.suspended THEN lastCall
                   ELSE [fn |-> fn, success |-> FALSE, flushed |-> FALSE]
    /\ UNCHANGED <<storageVars, hostCtx, cache, cacheAge, charLocks, chatMeta, currentLocks,
                   prefs, autoApplyMode, templates, oaiPrompts, promptOrder,
                   handler, rIn, rOut>>

CallSetGroupTemplateLock(g, t) ==
    /\ Cardinality(calls) < MaxCalls
    /\ GroupCallLeaves("setGroupTemplateLock",
                       setGroupTemplateLock(groupLocks, hostCtx, g, t), "set", t)

CallDeleteGroupTemplateLock(g) ==
    /\ Cardinality(calls) < MaxCalls
    /\ GroupCallLeaves("deleteGroupTemplateLock",
                       deleteGroupTemplateLock(groupLocks, hostCtx, g), "clear", None)

\* "await editGroup(groupId, false, false); return true;" or the catch:
\* editGroup, the flush of the group's record, was called either way.
AdapterEditGroupReturns(c, ok) ==
    /\ c \in calls
    /\ calls' = calls \ {c}
    /\ lastCall' = [fn |-> IF c.op = "set" THEN "setGroupTemplateLock"
                           ELSE "deleteGroupTemplateLock",
                    success |-> ok, flushed |-> TRUE]
    /\ UNCHANGED <<storageVars, hostCtx, cache, cacheAge, charLocks, groupLocks, chatMeta,
                   currentLocks, prefs, autoApplyMode, templates, oaiPrompts,
                   promptOrder, handler, rIn, rOut>>

InitStore == InitLock

NextStore ==
    \/ \E h \in HostStates : SwitchContext(h)
    \/ \E k \in AdapterKeys, t \in LockChoices : CallSetCharacterTemplateLock(k, t)
    \/ \E k \in AdapterKeys : CallDeleteCharacterTemplateLock(k)
    \/ \E t \in LockChoices, saveBound \in BOOLEAN : CallSetChatTemplateLock(t, saveBound)
    \/ \E saveBound \in BOOLEAN : CallDeleteChatTemplateLock(saveBound)
    \/ \E g \in AdapterGroups, t \in LockChoices : CallSetGroupChatTemplateLock(g, t)
    \/ \E g \in AdapterGroups : CallDeleteGroupChatTemplateLock(g)
    \/ \E g \in AdapterGroups, t \in LockChoices : CallSetGroupTemplateLock(g, t)
    \/ \E g \in AdapterGroups : CallDeleteGroupTemplateLock(g)
    \/ \E c \in calls, ok \in BOOLEAN : AdapterEditGroupReturns(c, ok)

SpecStore == InitStore /\ [][NextStore]_vars

-----------------------------------------------------------------------------
(* SpecPriority: the priority checkboxes of the lock menu                  *)

PreferenceNames ==
    {"preferCharacterOverChat", "preferGroupOverChat",
     "preferIndividualCharacterInGroup"}

\* window.ccpmSetPriority(preference, value)
ccpmSetPriority(preference, value) ==
    /\ prefs' = [prefs EXCEPT ![preference] = value]
    /\ UNCHANGED <<storageVars, hostCtx, cache, cacheAge, charLocks, groupLocks, chatMeta,
                   currentLocks, calls, lastCall, autoApplyMode, templates,
                   oaiPrompts, promptOrder, handler, rIn, rOut>>

\* Every scope of both families holds a lock: T1 on the characters, T2 on
\* the chats, TE on the group.
InitPriority ==
    /\ InitContext /\ InitLive /\ InitResolverIdle
    /\ calls = {} /\ lastCall = NoCall
    /\ prefs = DefaultPrefs /\ autoApplyMode = defaultSettings.autoApplyMode
    /\ charLocks = [k \in CharKeys |-> "T1"]
    /\ chatMeta = [k \in ChatIds |-> "T2"]
    /\ groupLocks = [k \in GroupIds |-> "TE"]

NextPriority ==
    \/ \E h \in HostStates : SwitchContext(h)
    \/ Tick
    \/ \E preference \in PreferenceNames, value \in BOOLEAN :
           ccpmSetPriority(preference, value)
    \/ UiGetEffectiveLock

SpecPriority == InitPriority /\ [][NextPriority]_vars

-----------------------------------------------------------------------------
(* SpecCharacter: the character lock set and cleared across contexts       *)

InitCharacter ==
    /\ InitContext /\ NoLocksStored /\ InitLive /\ InitResolverIdle
    /\ calls = {} /\ lastCall = NoCall
    /\ prefs = DefaultPrefs /\ autoApplyMode = defaultSettings.autoApplyMode

NextCharacter ==
    \/ \E h \in HostStates : SwitchContext(h)
    \/ Tick
    \/ \E t \in LockChoices, saveBound \in BOOLEAN :
           lockTemplate("character", t, saveBound)
    \/ \E saveBound \in BOOLEAN : clearTemplateLock("character", saveBound)
    \/ UiGetEffectiveLock

SpecCharacter == InitCharacter /\ [][NextCharacter]_vars

-----------------------------------------------------------------------------
(* SpecScopes: character and chat locks across chats and characters        *)

\* The template locked to each target in SpecScopes.
ScopeLock == [character |-> "T1", chat |-> "T2"]
ScopeTargets == {"character", "chat"}

InitScopes ==
    /\ InitContext /\ NoLocksStored /\ InitLive /\ InitResolverIdle
    /\ calls = {} /\ lastCall = NoCall
    /\ prefs = DefaultPrefs /\ autoApplyMode = defaultSettings.autoApplyMode

NextScopes ==
    \/ \E h \in ScopeHosts : SwitchContext(h)
    \/ Tick
    \/ \E target \in ScopeTargets, saveBound \in BOOLEAN :
           lockTemplate(target, ScopeLock[target], saveBound)
    \/ \E target \in ScopeTargets, saveBound \in BOOLEAN :
           clearTemplateLock(target, saveBound)
    \/ UiGetEffectiveLock

SpecScopes == InitScopes /\ [][NextScopes]_vars

-----------------------------------------------------------------------------
(* SpecOwner: the group lock asked for where no group record owns it       *)

InitOwner ==
    /\ InitContext /\ NoLocksStored /\ InitLive /\ InitResolverIdle
    /\ calls = {} /\ lastCall = NoCall
    /\ prefs = DefaultPrefs /\ autoApplyMode = defaultSettings.autoApplyMode

NextOwner ==
    \/ \E h \in OwnerHosts : SwitchContext(h)
    \/ Tick
    \/ \E t \in LockChoices, saveBound \in BOOLEAN :
           lockTemplate("group", t, saveBound)
    \/ \E saveBound \in BOOLEAN : clearTemplateLock("group", saveBound)
    \/ \E c \in calls, ok \in BOOLEAN : EditGroupReturns(c, ok)
    \/ UiGetEffectiveLock

SpecOwner == InitOwner /\ [][NextOwner]_vars

-----------------------------------------------------------------------------
(* SpecCache: getCurrent() and invalidate() called as time passes          *)

\* The clock advances by this many milliseconds between two events.
ClockStep == 250

\* Ages of CACHE_TTL and more all miss the cache alike.
Later(age) == IF age + ClockStep < CACHE_TTL THEN age + ClockStep ELSE CACHE_TTL

\* lastCall after a getCurrent() call: what it returned, the time since it
\* returned and whether invalidate() was called since.
getCurrentLeaves(g) ==
    /\ cache' = g.cache
    /\ cacheAge' = g.age
    /\ lastCall' = [fn |-> "getCurrent", threw |-> g.threw,
                    context |-> g.context, since |-> 0, invalidated |-> FALSE]
    /\ UNCHANGED <<storageVars, hostCtx, charLocks, groupLocks, chatMeta, currentLocks,
                   calls, prefs, autoApplyMode, templates, oaiPrompts,
                   promptOrder, handler, rIn, rOut>>

\* chatContext.getCurrent() is called.
CallGetCurrent == getCurrentLeaves(getCurrent(cache, cacheAge, hostCtx))

invalidateLeaves(i) ==
    /\ cache' = i.cache
    /\ cacheAge' = i.age
    /\ lastCall' = IF lastCall.fn = "getCurrent"
                   THEN [lastCall EXCEPT !.invalidated = TRUE] ELSE lastCall
    /\ UNCHANGED <<storageVars, hostCtx, charLocks, groupLocks, chatMeta, currentLocks,
                   calls, prefs, autoApplyMode, templates, oaiPrompts,
                   promptOrder, handler, rIn, rOut>>

\* chatContext.invalidate() is called.
CallInvalidate == invalidateLeaves(invalidate(cache, cacheAge))

\* Date.now() advances by ClockStep.
Elapse ==
    /\ cacheAge' = Later(cacheAge)
    /\ lastCall' = IF lastCall.fn = "getCurrent"
                   THEN [lastCall EXCEPT !.since = Later(lastCall.since)]
                   ELSE lastCall
    /\ <<cacheAge', lastCall'>> # <<cacheAge, lastCall>>
    /\ UNCHANGED <<storageVars, hostCtx, cache, charLocks, groupLocks, chatMeta,
                   currentLocks, calls, prefs, autoApplyMode, templates,
                   oaiPrompts, promptOrder, handler, rIn, rOut>>

InitCache ==
    /\ InitContext /\ NoLocksStored /\ InitLive /\ InitResolverIdle
    /\ calls = {} /\ lastCall = NoCall
    /\ prefs = DefaultPrefs /\ autoApplyMode = defaultSettings.autoApplyMode

NextCache ==
    \/ \E h \in HostStates : SwitchContext(h)
    \/ Elapse
    \/ CallGetCurrent
    \/ CallInvalidate

SpecCache == InitCache /\ [][NextCache]_vars

-----------------------------------------------------------------------------
(* SpecApi: CCPromptStorage.apiCall, one request and its retries           *)

Endpoints == {"read", "write", "list", "delete"}

\* What one fetch() settles to: a response with a status, or a rejection
\* with an error name (AbortError when the API_TIMEOUT timer fired).
Response(status) == [status |-> status, name |-> None]
Rejection(name) == [status |-> 0, name |-> name]
Fetched == {Response(st) : st \in {200, 404, 500, 503}}
           \cup {Rejection(n) : n \in {"AbortError", "NetworkError",
                                        "TypeError"}}

\* response.ok
isOk(response) == response.status \in 200..299

retryAfter_Always(fetched, retries) ==
    IF fetched.name = None
    THEN ~isOk(fetched) /\ fetched.status >= 500
    ELSE fetched.name \in {"AbortError", "NetworkError"}

\* The two conditions under which apiCall calls itself again.
retryAfter(fetched, retries) ==
    IF fetched.name = None
    THEN ~isOk(fetched) /\ fetched.status >= 500 /\ retries > 0
    ELSE fetched.name \in {"AbortError", "NetworkError"} /\ retries > 0

ApiLeaves(a) ==
    /\ api' = a
    /\ UNCHANGED <<files, clock, storage, tasks, hostCtx, cache, cacheAge,
                   charLocks, groupLocks, chatMeta, currentLocks, calls,
                   lastCall, prefs, autoApplyMode, templates, oaiPrompts,
                   promptOrder, handler, rIn, rOut>>

\* this.apiCall(endpoint, payload): every caller leaves retries at its
\* default.
CallApi(endpoint) ==
    /\ api.pc \in {"idle", "done"}
    /\ ApiLeaves([endpoint |-> endpoint, retries |-> MAX_RETRIES,
                  log |-> <<>>, pc |-> "fetch", result |-> None])

\* "await fetch" settles: retry after the delay, return the response or
\* rethrow.
FetchSettles(fetched) ==
    /\ api.pc = "fetch"
    /\ ApiLeaves(
          IF retryAfter(fetched, api.retries)
          THEN [api EXCEPT !.log = Append(@, fetched), !.pc = "delay"]
          ELSE [api EXCEPT !.log = Append(@, fetched), !.pc = "done",
                           !.result = fetched])

\* "await this.delay(RETRY_DELAY)" is over: apiCall(..., retries - 1).
DelayOver ==
    /\ api.pc = "delay"
    /\ ApiLeaves([api EXCEPT !.retries = @ - 1, !.pc = "fetch"])

InitApi ==
    /\ InitContext /\ NoLocksStored /\ InitLive /\ InitResolverIdle
    /\ calls = {} /\ lastCall = NoCall
    /\ prefs = DefaultPrefs /\ autoApplyMode = defaultSettings.autoApplyMode

NextApi ==
    \/ \E e \in Endpoints : CallApi(e)
    \/ \E f \in Fetched : FetchSettles(f)
    \/ DelayOver

SpecApi == InitApi /\ [][NextApi]_vars

-----------------------------------------------------------------------------
(* SpecStorage: saving, importing and restoring the template library,      *)
(* two operations at a time over the two CCPromptStorage objects           *)

\* The clock advances by at most this many seconds.
MaxTicks == 1
MaxClock == FirstSecond + MaxTicks

\* JSON.stringify(library, Object.keys(library).sort()): the array replacer
\* also filters the keys of the nested objects, so no template reaches the
\* digest; of the fields modelled only "modified" does.
generateLibraryHash(library) == <<library.modified>>

\* What a step of an operation leaves: the task, its storage object, the
\* server's files.
Out(t, st, f) == [task |-> t, storage |-> st, files |-> f]

\* The operation returned or threw.
finished(t, result, error) ==
    [IdleTask EXCEPT !.op = t.op, !.inst = t.inst, !.pc = "done",
                     !.result = result, !.error = error, !.wrote = t.wrote,
                     !.created = t.created, !.rotation = t.rotation,
                     !.preBackup = IF t.preBackup = None /\ result = "threw"
                                      /\ t.op \in {"restore", "import"}
                                   THEN "failed" ELSE t.preBackup]

\* saveLibrary(library) up to "await this.generateLibraryHash(library)".
saveLibrary(t, st, f, library, after) ==
    IF st.saveInProgress
    THEN Out(finished(t, "threw", "Save operation already in progress"),
             st, f)
    ELSE Out([t EXCEPT !.pc = "hash", !.lib = library, !.after = after],
             [st EXCEPT !.saveInProgress = TRUE], f)

\* library.modified = new Date().toISOString(), then the write is sent.
toWrite(t, now) ==
    [t EXCEPT !.pc = "write", !.lib = Library(now, t.lib.templates)]

\* The hash is there: shouldBackup is decided.
hashReturns(t, st, f, now, newHash) ==
    IF st.lastLibraryHash = NoHash \/ newHash # st.lastLibraryHash
    THEN Out([t EXCEPT !.pc = "autoLoad", !.newHash = newHash,
                       !.shouldBackup = TRUE], st, f)
    ELSE Out(toWrite([t EXCEPT !.newHash = newHash,
                               !.shouldBackup = FALSE], now), st, f)

\* createAutoBackup: loadLibrary returns. A 404 runs createDefaultLibrary,
\* whose saveLibrary is rejected by this very save; createAutoBackup
\* swallows that like any other failure.
autoLoadReturns(t, st, f, now, served) ==
    IF served /\ f.library # Missing
    THEN Out([t EXCEPT !.pc = "autoSave", !.ts = now, !.data = f.library],
             [st EXCEPT !.lastLibraryHash = generateLibraryHash(f.library)],
             f)
    ELSE Out(toWrite(t, now), st, f)

\* apiCall('write') of a backup file: it replaces a file of the same name.
writeBackup(backups, b) ==
    {x \in backups : ~(x.ts = b.ts /\ x.name = b.name)} \cup {b}

\* createAutoBackup: saveBackup returns; a failure is swallowed.
autoSaveReturns(t, st, f, now, served) ==
    IF served
    THEN Out(toWrite([t EXCEPT !.created = TRUE], now), st,
             [f EXCEPT !.backups = writeBackup(@, Backup(t.ts, "auto",
                                                         t.data))])
    ELSE Out(toWrite(t, now), st, f)

\* The "finally" of saveLibrary after a successful save, and what the
\* caller does next: return, go on with createManualBackup, or save the
\* library that loadLibrary created.
saveDone(t, st, f, now) ==
    IF t.after = "manualSave"
    THEN Out([t EXCEPT !.pc = "manualSave", !.ts = now, !.data = t.lib],
             [st EXCEPT !.saveInProgress = FALSE], f)
    ELSE IF t.after = "mainSave"
    THEN saveLibrary(t, [st EXCEPT !.saveInProgress = FALSE], f,
                     Library(t.lib.modified, t.tpl), "done")
    ELSE Out(finished(t, "ok", None),
             [st EXCEPT !.saveInProgress = FALSE], f)

\* What a save writes to library.json: the default library loadLibrary
\* creates after a 404 (its caller goes on afterwards), the data of the
\* backup being restored, or the caller's changed library.
Written(t) ==
    IF t.after # "done" THEN "default"
    ELSE IF t.op = "restore" THEN "restored" ELSE "changed"

\* The write of library.json returns.
writeReturns(t, st, f, now, served) ==
    IF ~served
    THEN Out(finished(t, "threw", "Failed to save library"),
             [st EXCEPT !.saveInProgress = FALSE], f)
    ELSE IF t.shouldBackup
    THEN Out([t EXCEPT !.pc = "list", !.wrote = @ \cup {Written(t)}],
             [st EXCEPT !.lastLibraryHash = t.newHash],
             [f EXCEPT !.library = t.lib])
    ELSE saveDone([t EXCEPT !.wrote = @ \cup {Written(t)}],
                  [st EXCEPT !.lastLibraryHash = t.newHash],
                  [f EXCEPT !.library = t.lib], now)

RECURSIVE NewestFirst(_)
\* .sort((a, b) => b.timestamp.localeCompare(a.timestamp))
NewestFirst(S) ==
    IF S = {} THEN <<>>
    ELSE <<CHOOSE x \in S : \A y \in S : y.ts <= x.ts>>
         \o NewestFirst(S \ {CHOOSE x \in S : \A y \in S : y.ts <= x.ts})

\* The name of a listed file, without its content.
FileName(b) == [ts |-> b.ts, name |-> b.name]

\* listBackups(): the files of backups/, newest first.
listBackups(f) == NewestFirst({FileName(b) : b \in f.backups})

IsAuto(b) == b.name = "auto"

rotateBackups_KeepOldest(autoBackups, maxBackups) ==
    IF Len(autoBackups) > maxBackups
    THEN SubSeq(autoBackups, 1, Len(autoBackups) - maxBackups)
    ELSE <<>>

\* rotateBackups: autoBackups.slice(maxBackups), the files to delete.
rotateBackups(autoBackups, maxBackups) ==
    IF Len(autoBackups) > maxBackups
    THEN SubSeq(autoBackups, maxBackups + 1, Len(autoBackups))
    ELSE <<>>

Range(q) == {q[i] : i \in 1..Len(q)}

\* rotateBackups: listBackups returns (an empty list when it failed).
listed(t, st, f, now, autoBackups, ok) ==
    IF rotateBackups(autoBackups, MAX_BACKUPS) = <<>>
    THEN saveDone([t EXCEPT !.listed = Range(autoBackups),
                            !.rotation = IF ok THEN "ok" ELSE "unlisted"],
                  st, f, now)
    ELSE Out([t EXCEPT !.pc = "delete", !.listed = Range(autoBackups),
                       !.toDelete = rotateBackups(autoBackups, MAX_BACKUPS)],
             st, f)

listReturns(t, st, f, now, served) ==
    listed(t, st, f, now,
           IF served THEN SelectSeq(listBackups(f), IsAuto) ELSE <<>>,
           served)

Stored(f, name) == \E b \in f.backups : FileName(b) = name

\* rotateBackups: deleteBackup returns; a failure ends the rotation and is
\* swallowed.
deleteReturns(t, st, f, now, served) ==
    IF served /\ Stored(f, Head(t.toDelete))
    THEN IF Len(t.toDelete) = 1
         THEN saveDone([t EXCEPT !.toDelete = <<>>, !.rotation = "ok"], st,
                       [f EXCEPT !.backups =
                            {b \in @ : FileName(b) # Head(t.toDelete)}],
                       now)
         ELSE Out([t EXCEPT !.toDelete = Tail(@)], st,
                  [f EXCEPT !.backups =
                       {b \in @ : FileName(b) # Head(t.toDelete)}])
    ELSE saveDone([t EXCEPT !.toDelete = <<>>, !.rotation = "failed"],
                  st, f, now)

\* createDefaultLibrary()
DefaultLibrary(now) == Library(now, "empty")

\* loadLibrary returns to createManualBackup (phase "manual") or to the
\* caller that changes the library and saves it (phase "main"). A 404
\* makes it create and save the default library first.
loadReturns(t, st, f, now, served) ==
    IF ~served
    THEN Out(finished(t, "threw", "Failed to read library"), st, f)
    ELSE IF f.library = Missing
    THEN saveLibrary(t, st, f, DefaultLibrary(now),
                     IF t.phase = "manual" THEN "manualSave"
                     ELSE "mainSave")
    ELSE IF t.phase = "manual"
    THEN Out([t EXCEPT !.pc = "manualSave", !.ts = now,
                       !.data = f.library],
             [st EXCEPT !.lastLibraryHash = generateLibraryHash(f.library)],
             f)
    ELSE saveLibrary(
             t, [st EXCEPT !.lastLibraryHash = generateLibraryHash(f.library)],
             f, Library(f.library.modified, t.tpl), "done")

\* The name createManualBackup is called with.
BackupName(op) == IF op = "restore" THEN "pre-restore" ELSE "pre-import"

manualSaveReturns_Regardless(t, st, f, now, served) ==
    Out([t EXCEPT !.pc = "loadBackup",
                  !.preBackup = IF served THEN "written" ELSE "failed"],
        st,
        IF served
        THEN [f EXCEPT !.backups =
                  writeBackup(@, Backup(t.ts, BackupName(t.op), t.data))]
        ELSE f)

\* createManualBackup: saveBackup returns, to restoreFromBackup or to
\* importLibrary.
manualSaveReturns(t, st, f, now, served) ==
    IF ~served
    THEN Out(finished(t, "threw", "Failed to save backup"), st, f)
    ELSE Out([t EXCEPT !.pc = IF t.op = "restore" THEN "loadBackup"
                              ELSE "load",
                       !.phase = "main", !.preBackup = "written"],
             st,
             [f EXCEPT !.backups =
                  writeBackup(@, Backup(t.ts, BackupName(t.op), t.data))])

\* restoreFromBackup: loadBackup returns; its data is saved as the library.
loadBackupReturns(t, st, f, now, served) ==
    IF served /\ Stored(f, t.filename)
    THEN saveLibrary(t, st, f,
                     (CHOOSE b \in f.backups : FileName(b) = t.filename).data,
                     "done")
    ELSE Out(finished(t, "threw", "Failed to read backup"), st, f)

\* The step of an operation suspended at pc.
stepReturns(t, st, f, now, served) ==
    IF t.pc = "load" THEN loadReturns(t, st, f, now, served)
    ELSE IF t.pc = "hash"
    THEN hashReturns(t, st, f, now, generateLibraryHash(t.lib))
    ELSE IF t.pc = "autoLoad" THEN autoLoadReturns(t, st, f, now, served)
    ELSE IF t.pc = "autoSave" THEN autoSaveReturns(t, st, f, now, served)
    ELSE IF t.pc = "write" THEN writeReturns(t, st, f, now, served)
    ELSE IF t.pc = "list" THEN listReturns(t, st, f, now, served)
    ELSE IF t.pc = "delete" THEN deleteReturns(t, st, f, now, served)
    ELSE IF t.pc = "manualSave" THEN manualSaveReturns(t, st, f, now, served)
    ELSE loadBackupReturns(t, st, f, now, served)

StorageLeaves(id, o) ==
    /\ tasks' = [tasks EXCEPT ![id] = o.task]
    /\ storage' = [storage EXCEPT ![o.task.inst] = o.storage]
    /\ files' = o.files
    /\ UNCHANGED <<clock, api, hostCtx, cache, cacheAge, charLocks,
                   groupLocks, chatMeta, currentLocks, calls, lastCall,
                   prefs, autoApplyMode, templates, oaiPrompts, promptOrder,
                   handler, rIn, rOut>>

\* Each task runs one operation, task 1 first.
Free(id) ==
    /\ tasks[id].pc = "idle"
    /\ \A other \in TaskIds : other < id => tasks[other].pc # "idle"

Started(op, inst, phase, tpl, filename) ==
    [IdleTask EXCEPT !.op = op, !.inst = inst, !.pc = "load",
                     !.phase = phase, !.tpl = tpl, !.filename = filename,
                     !.result = "running"]

\* The templates an update or an import leaves in the library.
NewTemplates == {"B"}

\* CCPromptTemplateManager.createTemplate/updateTemplate/deleteTemplate:
\* loadLibrary, change the templates, saveLibrary.
UpdateTemplate(id, tpl) ==
    /\ Free(id)
    /\ StorageLeaves(id, Out(Started("update", "templateManager", "main",
                                     tpl, NoFile),
                             storage["templateManager"], files))

\* CCPromptManager's import: importLibrary with backup_first.
importLibrary(id, tpl) ==
    /\ Free(id)
    /\ StorageLeaves(id, Out(Started("import", "manager", "manual", tpl,
                                     NoFile),
                             storage["manager"], files))

\* The backup the user restores in the model: the oldest file listed.
RestoreChoices ==
    {FileName(b) : b \in {x \in files.backups :
                              \A y \in files.backups : x.ts <= y.ts}}

\* handleRestoreBackup(filename): the confirmation popup returns, and when
\* confirmed restoreFromBackup starts.
handleRestoreBackup(id, filename, confirmed) ==
    /\ Free(id)
    /\ IF confirmed
       THEN StorageLeaves(id, Out(Started("restore", "manager", "manual",
                                          None, filename),
                                  storage["manager"], files))
       ELSE UNCHANGED vars

\* An awaited request or digest of operation id settles; servedOk tells
\* whether the server carried the request out and apiCall returned its
\* answer (otherwise apiCall threw or returned an error response).
RequestReturns(id, servedOk) ==
    /\ tasks[id].result = "running"
    /\ StorageLeaves(id, stepReturns(tasks[id], storage[tasks[id].inst],
                                     files, clock, servedOk))

ClockTicks ==
    /\ clock < MaxClock
    /\ clock' = clock + 1
    /\ UNCHANGED <<files, storage, tasks, api, hostCtx, cache, cacheAge,
                   charLocks, groupLocks, chatMeta, currentLocks, calls,
                   lastCall, prefs, autoApplyMode, templates, oaiPrompts,
                   promptOrder, handler, rIn, rOut>>

\* The automatic backups a server holds at start-up.
OldBackups(k) ==
    {Backup(i, "auto", Library(i, "A")) : i \in 1..k}

InitStorage ==
    /\ hostCtx = "alice" /\ cache = {} /\ cacheAge = CACHE_TTL
    /\ currentLocks = _getEmptyLocks
    /\ NoLocksStored /\ InitLive /\ InitResolverIdle
    /\ calls = {} /\ lastCall = NoCall
    /\ prefs = DefaultPrefs /\ autoApplyMode = defaultSettings.autoApplyMode
    /\ clock = FirstSecond
    /\ storage = [i \in Instances |-> NewStorage]
    /\ tasks = [id \in TaskIds |-> IdleTask]
    /\ api = NoRequest
    /\ \/ files = [library |-> Missing, backups |-> OldBackups(1)]
       \/ files = [library |-> Library(FirstSecond - 1, "A"),
                   backups |-> OldBackups(MAX_BACKUPS + 1)]

NextStorage ==
    \/ ClockTicks
    \/ \E id \in TaskIds, tpl \in NewTemplates : UpdateTemplate(id, tpl)
    \/ \E id \in TaskIds, tpl \in NewTemplates : importLibrary(id, tpl)
    \/ \E id \in TaskIds, f \in RestoreChoices, confirmed \in BOOLEAN :
           handleRestoreBackup(id, f, confirmed)
    \/ \E id \in TaskIds, servedOk \in BOOLEAN : RequestReturns(id, servedOk)

SpecStorage == InitStorage /\ [][NextStorage]_vars

-----------------------------------------------------------------------------
(* Claims                                                                  *)

AutoKinds == {"chat", "preset"}
Live == <<oaiPrompts, promptOrder>>

\* A step of this run calls applyTemplate: the call suspends in
\* saveServiceSettings or has returned.
CallsApply == 
    /\ handler.pc \in {"idle", "rejected", "dialog"}
    /\ handler'.pc = "save" \/ (handler'.pc = "idle" /\ handler'.result # None)
    /\ handler.pc = "dialog" \/ handler' # handler

\* C1: applyTemplate of a template with no prompts returns false and leaves
\* the live prompt collection and the prompt-order table as they were,
\* called by hand or by the auto-apply handler in mode Always.
C1_EmptyTemplateRefused ==
    [][(CallsApply /\ handler'.templateId = "TE")
           => (Returned(handler') = "false" /\ UNCHANGED Live)]_vars

\* The default ranking read off an outcome e of getEffectiveLock.
DefaultRankingOf(e) ==
    (prefs = DefaultPrefs /\ ~e.threw) =>
        /\ (~e.context.isGroupChat /\ e.locks.character # None /\ e.locks.chat # None)
               => e.lock = [templateId |-> e.locks.character, source |-> "character"]
        /\ (e.context.isGroupChat /\ e.locks.character # None /\ e.locks.chat # None
                /\ e.locks.group # None)
               => e.lock = [templateId |-> e.locks.group, source |-> "group"]

\* C2: with the default preferences, getEffectiveLock over a family in
\* which every scope holds a lock returns the Character lock with source
\* character (single) or the Group lock with source group (group).
C2_DefaultRanking ==
    DefaultRankingOf(getEffectiveLock(cache, cacheAge, hostCtx, charLocks,
                                      groupLocks, chatMeta))

\* C4: every lock mutator of the storage adapter that reports success has
\* triggered the persistence flush of its region before it returned.
C4_SuccessImpliesFlushed == lastCall.success => lastCall.flushed

\* C5: a handleChatChange or handlePresetChange run never throws or rejects.
C5_HandlerNeverRejects == handler.pc # "rejected"

\* C6: a chat-change or preset-change handler that read mode Never shows no
\* dialog, does not call applyTemplate and leaves the live prompt state as
\* it was.
C6_NeverModeNeverApplies ==
    [][(handler'.kind \in AutoKinds /\ handler'.mode = AUTO_APPLY_MODES.NEVER)
           => /\ handler'.pc \in {"idle", "rejected"}
              /\ handler'.popup = None /\ handler'.result = None
              /\ UNCHANGED Live]_vars

\* C6 witness: a chat change handled in mode Never, in a context whose chat
\* lock names an existing template.
C6_Witness ==
    /\ handler.kind = "chat" /\ handler.mode = AUTO_APPLY_MODES.NEVER
    /\ handler.fresh /\ currentLocks.chat = "T1" /\ oaiPrompts = HostPrompts

\* C7: a handler that read mode Ask calls applyTemplate only after the
\* popup it raised resolved to AFFIRMATIVE; while the popup is open, and
\* when it is skipped or dismissed, the live prompt state stays as it was.
C7_AskAppliesOnlyWhenAffirmed ==
    [][(handler'.kind \in AutoKinds /\ handler'.mode = AUTO_APPLY_MODES.ASK)
           => /\ (handler'.pc \in {"save", "render"} \/ handler'.result # None)
                     => handler'.popup = POPUP_RESULT.AFFIRMATIVE
              /\ handler'.popup # POPUP_RESULT.AFFIRMATIVE => UNCHANGED Live
              /\ (handler.pc = "dialog" /\ handler'.popup = POPUP_RESULT.AFFIRMATIVE)
                     => CallsApply]_vars

\* C7 witness: the user dismissed the popup of a chat change in mode Ask.
C7_Witness ==
    /\ handler.kind = "chat" /\ handler.mode = AUTO_APPLY_MODES.ASK
    /\ handler.popup = POPUP_RESULT.CANCELLED /\ handler.pc = "idle"
    /\ handler.templateId = "T2"

\* A notification handled in mode Always whose effective lock names an
\* existing template.
AlwaysResolved ==
    /\ handler.pc \in {"idle", "rejected"}
    /\ handler'.kind \in AutoKinds
    /\ handler'.mode = AUTO_APPLY_MODES.ALWAYS
    /\ handler'.templateId \in templates
    /\ \E pm \in BOOLEAN : ChatChanged(pm) \/ PresetChanged(pm)

\* C8 as claimed: in mode Always every notification whose effective lock
\* names an existing template replaces the live prompt state with that
\* template, once, with no dialog.
C8_AlwaysReplacesOnce ==
    [][/\ AlwaysResolved
           => /\ handler'.popup = None
              /\ handler'.pc = "save"
              /\ oaiPrompts' = TemplatePrompts[handler'.templateId]
       /\ handler.pc \in {"save", "render"} => UNCHANGED Live]_vars

\* C8 as amended: such a notification calls applyTemplate once, with no
\* dialog; with promptManager set the live prompt collection becomes the
\* template's, once; without it applyTemplate returns false and the live
\* prompt state stays as it was.
C8_AlwaysAppliesOnce ==
    [][/\ AlwaysResolved
           => /\ handler'.popup = None
              /\ \/ /\ handler'.pc = "save"
                    /\ oaiPrompts' = TemplatePrompts[handler'.templateId]
                 \/ /\ handler'.result = "false: PromptManager not available"
                    /\ UNCHANGED Live
       /\ handler.pc \in {"save", "render"} => UNCHANGED Live]_vars

\* C8 witness: a chat change in mode Always replaced the prompts by T1's.
C8_Witness ==
    /\ handler.kind = "chat" /\ handler.mode = AUTO_APPLY_MODES.ALWAYS
    /\ handler.pc = "save" /\ handler.templateId = "T1"
    /\ oaiPrompts = TemplatePrompts["T1"] /\ handler.popup = None

\* The locks loadCurrentLocks reads for the host's context as it is now.
LocksOfHost(h) ==
    IF _buildContext(h).isGroupChat
    THEN _loadGroupLocks(_buildContext(h), h, charLocks, groupLocks, chatMeta)
    ELSE _loadSingleLocks(_buildContext(h), h, charLocks, groupLocks, chatMeta)

\* C9 as claimed: every chat-change or preset-change handler that loads
\* locks loads them for a snapshot built after the notification.
C9_EveryHandlerRebuilds ==
    (/\ handler.kind \in AutoKinds /\ handler.pc # "rejected"
     /\ handler.kind = "preset" => handler.mode # AUTO_APPLY_MODES.NEVER)
        => handler.fresh

\* C9 as amended: handleChatChange invalidates the cache first, so the
\* snapshot it caches and the locks it loads are those of the host's
\* context at the notification (handlePresetChange does not invalidate: it
\* resolves from a cached snapshot younger than CACHE_TTL).
C9_ChatChangeRebuilds ==
    [][(/\ handler.pc \in {"idle", "rejected"}
        /\ handler'.kind = "chat" /\ handler'.pc # "rejected"
        /\ \E pm \in BOOLEAN : ChatChanged(pm))
           => /\ handler'.fresh
              /\ cache' = {_buildContext(hostCtx)} /\ cacheAge' = 0
              /\ currentLocks' = LocksOfHost(hostCtx)]_vars

\* C9 witness: a chat change handled after the host switched to the group:
\* the cached snapshot and the mirror are the group's.
C9_Witness ==
    /\ handler.kind = "chat" /\ handler.fresh /\ hostCtx = "grp"
    /\ cache = {_buildContext("grp")} /\ currentLocks.group = "T2"

\* C10: when the last of a set of overlapping setLock/clearLock calls on
\* the group has finished, having mirrored its template id, currentLocks.group
\* is what the group's record holds.
C10_MirrorMatchesStore ==
    [][\A c \in calls :
           (/\ EditGroupReturns(c, TRUE) /\ calls' = {}
            /\ cache # {} /\ TheCached(cache).isGroupChat)
               => currentLocks'.group = groupLocks'[TheCached(cache).groupId]]_vars

\* The scope keys of the context the host is in.
ActualCharacterKey(h) ==
    IF Host[h].selected_group # None
    THEN characterKey(groups[Host[h].selected_group].name)
    ELSE characterKey(Host[h].name2)

\* C11: every lock record setLock/clearLock writes or deletes is under the
\* scope key of the context the host is in when the call is made, however
\* stale the snapshot the call read.
C11_WritesOnlyCurrentScope ==
    [][/\ \A k \in CharKeys :
              charLocks'[k] # charLocks[k] => k = ActualCharacterKey(hostCtx)
       /\ \A g \in GroupIds :
              groupLocks'[g] # groupLocks[g] => g = Host[hostCtx].selected_group
       /\ \A c \in ChatIds :
              chatMeta'[c] # chatMeta[c] => c = Host[hostCtx].metaId]_vars

\* The single-chat ranking preference p read off an outcome e of
\* getEffectiveLock.
SingleRankingFollows(p, e) ==
    (/\ ~e.threw /\ ~e.context.isGroupChat
     /\ e.locks.character # None /\ e.locks.chat # None)
        => e.lock.templateId = IF p.preferCharacterOverChat
                               THEN e.locks.character ELSE e.locks.chat

\* C12: after ccpmSetPriority changes preferCharacterOverChat, the next
\* getEffectiveLock in a single chat holding a character lock and a chat
\* lock returns the chat lock when it was set to false and the character
\* lock when it was set to true.
C12_PriorityChangeTakesEffect ==
    [][prefs'.preferCharacterOverChat # prefs.preferCharacterOverChat
           => SingleRankingFollows(prefs',
                  getEffectiveLock(cache', cacheAge', hostCtx', charLocks',
                                   groupLocks', chatMeta'))]_vars

\* A run that replaced the live prompt state with its template.
Applied(hd) ==
    \/ hd.pc \in {"save", "render"}
    \/ hd.pc = "idle" /\ hd.result \in {"true", "false: Failed to apply template"}

ReapplyOf(templateId) ==
    applyTemplate(templateId, templates, TRUE, oaiPrompts, promptOrder)

\* C13: once a template has been applied, applying the same template again
\* leaves the live prompt collection and the prompt-order table equal to
\* what the first application left.
C13_ApplyTwiceIsIdempotent ==
    (Applied(handler) /\ handler.templateId \in templates)
        => /\ ReapplyOf(handler.templateId).prompts = oaiPrompts
           /\ ReapplyOf(handler.templateId).order = promptOrder

\* T1, which carries a prompt order, has been applied by hand.
C13_Witness ==
    /\ handler.kind = "manual" /\ handler.result = "true"
    /\ handler.templateId = "T1"
    /\ oaiPrompts = TemplatePrompts["T1"]
    /\ promptOrder[DefaultCharacterId] = TemplatePromptOrder["T1"]

\* C14: promptManager.render() is requested only by the step in which
\* saveServiceSettings() returned without throwing; when it throws, render
\* is not requested and applyTemplate returns false.
C14_RenderOnlyAfterSave ==
    [][/\ (handler'.pc = "render" /\ handler.pc # "render")
            => (handler.pc = "save" /\ SaveServiceSettingsReturns(TRUE))
       /\ SaveServiceSettingsReturns(FALSE)
            => (handler'.pc = "idle" /\ Returned(handler') = "false")]_vars

\* An auto-apply run whose settings were saved waits in render().
C14_Witness ==
    /\ handler.pc = "render" /\ handler.kind \in AutoKinds
    /\ oaiPrompts = TemplatePrompts[handler.templateId]

\* The prompt-order entry of the id the template was captured under holds
\* the template's order, and every other entry is as it was.
OnlyCapturedEntryChanges(templateId, before, after) ==
    /\ activeCharacterId[templateId] \in DOMAIN after
    /\ after[activeCharacterId[templateId]] = TemplatePromptOrder[templateId]
    /\ \A c \in DOMAIN after \ {activeCharacterId[templateId]} :
           c \in DOMAIN before /\ after[c] = before[c]

\* C15: a step that applies a template carrying a prompt order replaces or
\* inserts the prompt-order entry keyed by the id the template was captured
\* under, and leaves the entries of all other ids unchanged.
C15_OrderGoesToCapturedId ==
    [][(/\ CallsApply
        /\ handler'.pc = "save"
        /\ Len(TemplatePromptOrder[handler'.templateId]) > 0)
           => OnlyCapturedEntryChanges(handler'.templateId, promptOrder,
                                       promptOrder')]_vars

\* C16: a step of a handler run, or of an application by hand, whose
\* template id names no template of the library leaves the live prompt state
\* unchanged; the run ends there, and where it called applyTemplate the
\* call returned false.
C16_MissingTemplateChangesNothing ==
    [][(/\ handler.pc \in {"idle", "rejected", "dialog"}
        /\ handler' # handler
        /\ handler'.templateId # None
        /\ handler'.templateId \notin templates)
           => /\ UNCHANGED Live
              /\ handler'.pc = "idle"
              /\ handler'.result \in {None, "false: Template not found"}
              /\ CallsApply => Returned(handler') = "false"]_vars

\* The chat-change handler, in mode Always, found the group locked to the
\* deleted template T2 and applied nothing.
C16_Witness ==
    /\ "T2" \notin templates
    /\ handler.kind = "chat" /\ handler.mode = AUTO_APPLY_MODES.ALWAYS
    /\ handler.templateId = "T2" /\ handler.pc = "idle"
    /\ handler.result = None
    /\ Live = <<HostPrompts, HostPromptOrder>>

\* A getCurrent() call that follows another one which returned a snapshot,
\* with no invalidate() in between.
SecondCall ==
    /\ CallGetCurrent
    /\ lastCall.fn = "getCurrent" /\ ~lastCall.threw /\ ~lastCall.invalidated

SameSnapshotAgain == ~lastCall'.threw /\ lastCall'.context = lastCall.context

\* C17 as stated: two getCurrent() calls less than 1000 ms apart, with no
\* invalidate() between them, return the same snapshot.
C17_CallsWithinTtlAgree ==
    [][(SecondCall /\ lastCall.since < CACHE_TTL) => SameSnapshotAgain]_vars

\* C17: a getCurrent() call made less than 1000 ms after the snapshot the
\* previous call returned was built, with no invalidate() in between,
\* returns that snapshot again, whatever the host switched to meanwhile.
C17_CallWithinTtlOfBuildAgrees ==
    [][(SecondCall /\ cacheAge < CACHE_TTL) => SameSnapshotAgain]_vars

\* The host is in another context than the one the last call returned, and
\* the snapshot is still younger than CACHE_TTL.
C17_Witness ==
    /\ lastCall.fn = "getCurrent" /\ ~lastCall.threw /\ ~lastCall.invalidated
    /\ lastCall.since = 0 /\ cacheAge = ClockStep
    /\ hostCtx = "grp" /\ ~lastCall.context.isGroupChat

\* C18: when getCurrent() has to build and the build throws, it returns the
\* cached snapshot if there is one and throws if there is none.
C18_BuildFailureFallsBack ==
    [][(/\ CallGetCurrent
        /\ cache = {} \/ cacheAge >= CACHE_TTL
        /\ buildThrows(hostCtx))
           => IF cache # {}
              THEN ~lastCall'.threw /\ lastCall'.context = TheCached(cache)
              ELSE lastCall'.threw]_vars

\* The build threw and the expired snapshot of Alice's chat was returned.
C18_Witness ==
    /\ lastCall.fn = "getCurrent" /\ ~lastCall.threw /\ lastCall.since = 0
    /\ buildThrows(hostCtx) /\ cacheAge = CACHE_TTL
    /\ cache = {lastCall.context}

\* getCharacterTemplateLock for the key setLock/clearLock derived from the
\* snapshot it read returns v.
SnapshotKeyHolds(c, cl, v) ==
    (c # {} /\ TheCached(c).characterName # None)
        => getCharacterTemplateLock(cl, characterKey(TheCached(c).characterName)) = v

\* C20: after setLock('character', id) the adapter's getCharacterTemplateLock
\* for the same character key (the index 0 of Alice, the name of the group)
\* returns id, and after clearLock('character') it returns null.
C20_CharacterLockRoundTrip ==
    [][/\ \A t \in LockChoices, sb \in BOOLEAN :
              lockTemplate("character", t, sb)
                  => SnapshotKeyHolds(cache', charLocks', t)
       /\ \A sb \in BOOLEAN :
              clearTemplateLock("character", sb)
                  => SnapshotKeyHolds(cache', charLocks', None)]_vars

\* Alice, whose key is the index 0, is locked to T2.
C20_Witness ==
    /\ hostCtx = "alice" /\ cache = {_buildContext("alice")}
    /\ characterKey(TheCached(cache).characterName) = IndexString[0]
    /\ charLocks[IndexString[0]] = "T2" /\ currentLocks.character = "T2"

\* What setLock / clearLock return when called in this state.
setLockNow(target, t, sb) ==
    setLock(target, t, getCurrent(cache, cacheAge, hostCtx).context, hostCtx,
            charLocks, groupLocks, chatMeta, currentLocks, sb)

clearLockNow(target, sb) ==
    clearLock(target, getCurrent(cache, cacheAge, hostCtx).context, hostCtx,
              charLocks, groupLocks, chatMeta, currentLocks, sb)

\* The lock set a getEffectiveLock() issued right after this step loads
\* holds v for the scope.
LoadsAfter(target, v) ==
    /\ ~getEffectiveLock(cache', cacheAge', hostCtx', charLocks', groupLocks',
                         chatMeta').threw
    /\ getEffectiveLock(cache', cacheAge', hostCtx', charLocks', groupLocks',
                        chatMeta').locks[target] = v

\* C19: when a setLock(scope, id) call returns true, a getEffectiveLock()
\* issued in the same turn resolves over a lock set in which the scope holds
\* id; when a clearLock(scope) call returns true, over one in which the
\* scope holds no lock.  Stated for a host whose groups[] is well-formed.
C19_EffectiveLockSeesTheWrite ==
    [][Host[hostCtx'].groupsOk =>
       /\ \A target \in Targets, t \in LockChoices, sb \in BOOLEAN :
              (/\ lockTemplate(target, t, sb)
               /\ ~setLockNow(target, t, sb).suspended
               /\ setLockNow(target, t, sb).success)
                  => LoadsAfter(target, t)
       /\ \A target \in Targets, sb \in BOOLEAN :
              (/\ clearTemplateLock(target, sb)
               /\ ~clearLockNow(target, sb).suspended
               /\ clearLockNow(target, sb).success)
                  => LoadsAfter(target, None)
       /\ \A c \in calls :
              EditGroupReturns(c, TRUE) => LoadsAfter("group", c.templateId)]_vars

\* C21: one record per scope key: a set on a key that already holds a
\* lock replaces it, so the getter of that key then reports the template
\* just set, and a delete leaves the getter of that key reporting no lock.
C21_OneRecordPerKey ==
    [][/\ \A k \in AdapterKeys \ {None}, t \in LockChoices :
              CallSetCharacterTemplateLock(k, t)
                  => getCharacterTemplateLock(charLocks', k) = t
       /\ \A k \in AdapterKeys \ {None} :
              CallDeleteCharacterTemplateLock(k)
                  => getCharacterTemplateLock(charLocks', k) = None
       /\ \A t \in LockChoices, sb \in BOOLEAN :
              CallSetChatTemplateLock(t, sb)
                  => getChatTemplateLock(chatMeta', hostCtx') = t
       /\ \A sb \in BOOLEAN :
              CallDeleteChatTemplateLock(sb)
                  => getChatTemplateLock(chatMeta', hostCtx') = None
       /\ \A g \in GroupIds, t \in LockChoices :
              CallSetGroupChatTemplateLock(g, t)
                  => getGroupChatTemplateLock(chatMeta', hostCtx', g) = t
       /\ \A g \in GroupIds :
              CallDeleteGroupChatTemplateLock(g)
                  => getGroupChatTemplateLock(chatMeta', hostCtx', g) = None
       /\ \A g \in GroupIds, t \in LockChoices :
              (CallSetGroupTemplateLock(g, t) /\ Host[hostCtx].groupsOk)
                  => getGroupTemplateLock(groupLocks', hostCtx', g) = t
       /\ \A g \in GroupIds :
              (CallDeleteGroupTemplateLock(g) /\ Host[hostCtx].groupsOk)
                  => getGroupTemplateLock(groupLocks', hostCtx', g) = None]_vars

\* The key 0, locked to T1 before, has just been locked to T2.
C21_Witness ==
    /\ lastCall.fn = "setCharacterTemplateLock" /\ lastCall.success
    /\ charLocks[IndexString[0]] = "T2"
    /\ chatMeta["a1"] = "T1"

\* The locks loadCurrentLocks() loads in host state h once the snapshot has
\* been invalidated, as the chat-change handler does.
FreshLocks(h, cl, gl, cm) ==
    loadCurrentLocks({}, CACHE_TTL, h, cl, gl, cm).locks

\* The step is a setLock / clearLock on the target, made with a snapshot of
\* the context the host is in.
LocksHere(target) ==
    /\ cache' = {_buildContext(hostCtx)}
    /\ \E sb \in BOOLEAN : lockTemplate(target, ScopeLock[target], sb)

ClearsHere(target) ==
    /\ cache' = {_buildContext(hostCtx)}
    /\ \E sb \in BOOLEAN : clearTemplateLock(target, sb)

SameCard(h1, h2) ==
    /\ Host[h1].selected_group = None /\ Host[h2].selected_group = None
    /\ Host[h1].this_chid = Host[h2].this_chid

\* C22: a character lock set while card X is active is loaded in every
\* chat of X, and stays what it is until a setLock or clearLock on the
\* character target: switching chat or character never changes it.
C22_CharacterLockSurvivesSwitches ==
    [][/\ LocksHere("character")
            => \A h \in ScopeHosts :
                   SameCard(h, hostCtx)
                       => FreshLocks(h, charLocks', groupLocks', chatMeta').character
                              = ScopeLock.character
       /\ ClearsHere("character")
            => \A h \in ScopeHosts :
                   SameCard(h, hostCtx)
                       => FreshLocks(h, charLocks', groupLocks', chatMeta').character
                              = None
       /\ charLocks' # charLocks
            => \E sb \in BOOLEAN :
                   \/ lockTemplate("character", ScopeLock.character, sb)
                   \/ clearTemplateLock("character", sb)]_vars

\* Alice, locked to T1 in her first chat, is active in her second chat and
\* the lock is loaded there.
C22_Witness ==
    /\ hostCtx = "alice2" /\ cache = {_buildContext("alice2")}
    /\ charLocks[IndexString[0]] = ScopeLock.character
    /\ currentLocks.character = ScopeLock.character

\* C23: a character lock set for one card is not loaded while another card
\* is active; a chat lock set in one chat is not loaded in another chat; a
\* lock set or cleared on the chat of a group leaves the group's lock alone.
C23_LocksStayInTheirScope ==
    [][/\ (LocksHere("character") \/ ClearsHere("character"))
            => \A h \in ScopeHosts :
                   (/\ Host[h].selected_group = None
                    /\ Host[hostCtx].selected_group = None
                    /\ ~SameCard(h, hostCtx))
                       => FreshLocks(h, charLocks', groupLocks', chatMeta').character
                              = FreshLocks(h, charLocks, groupLocks, chatMeta).character
       /\ (LocksHere("chat") \/ ClearsHere("chat"))
            => /\ \A h \in ScopeHosts :
                      Host[h].metaId # Host[hostCtx].metaId
                          => FreshLocks(h, charLocks', groupLocks', chatMeta').chat
                                 = FreshLocks(h, charLocks, groupLocks, chatMeta).chat
               /\ \A h \in ScopeHosts :
                      FreshLocks(h, charLocks', groupLocks', chatMeta').group
                          = FreshLocks(h, charLocks, groupLocks, chatMeta).group]_vars

\* What the two handlers load and resolve in this state: the chat-change
\* handler after invalidate(), the preset-change handler from the cache.
ChatChangeLoads ==
    getEffectiveLock({}, CACHE_TTL, hostCtx, charLocks, groupLocks, chatMeta)

PresetChangeLoads ==
    getEffectiveLock(cache, cacheAge, hostCtx, charLocks, groupLocks, chatMeta)

NothingLocked(e) == ~e.threw /\ e.locks = _getEmptyLocks

\* The handler returned at once: no popup, no applyTemplate call, and the
\* live prompt state and the lock storage as they were.
HandlerDidNothing ==
    /\ UNCHANGED <<oaiPrompts, promptOrder, charLocks, groupLocks, chatMeta>>
    /\ handler'.pc = "idle" /\ handler'.popup = None
    /\ handler'.templateId = None /\ handler'.result = None

OwnerMissing ==
    \/ ~getCurrent(cache, cacheAge, hostCtx).context.isGroupChat
    \/ getCurrent(cache, cacheAge, hostCtx).context.groupId \notin GroupIds

ReturnedFalse(r) == ~r.suspended /\ ~r.success

LocksUntouched ==
    UNCHANGED <<charLocks, groupLocks, chatMeta, currentLocks, calls>>

\* C25: setLock('group', id) and clearLock('group') called where the
\* snapshot is a single chat or names a group that groups[] does not hold
\* do not throw: they return false and leave every stored lock and
\* currentLocks unchanged.
C25_MissingOwnerReturnsFalse ==
    [][OwnerMissing =>
        /\ ~getCurrent(cache, cacheAge, hostCtx).threw
        /\ \A t \in LockChoices, sb \in BOOLEAN :
               lockTemplate("group", t, sb)
                   => (ReturnedFalse(setLockNow("group", t, sb)) /\ LocksUntouched)
        /\ \A sb \in BOOLEAN :
               clearTemplateLock("group", sb)
                   => (ReturnedFalse(clearLockNow("group", sb)) /\ LocksUntouched)]_vars

\* The group g1 holds a lock, and the snapshot is of the selected group
\* that groups[] no longer holds.
C25_Witness ==
    /\ hostCtx = "ghost" /\ cache = {_buildContext("ghost")}
    /\ groupLocks["g1"] = "T1" /\ currentLocks.group = "T1"
    /\ calls = {}

\* An auto-apply run replaces the live prompt state in this step.
AutoReplaces ==
    /\ handler'.kind \in AutoKinds
    /\ <<oaiPrompts', promptOrder'>> # <<oaiPrompts, promptOrder>>

\* The effective lock of the context the host is in, resolved afresh.
LockOfHostNow ==
    getEffectiveLock({}, CACHE_TTL, hostCtx, charLocks, groupLocks, chatMeta)

-----------------------------------------------------------------------------
\* A fetch outcome after which apiCall may try again.
Retriable(fetched) ==
    \/ fetched.name = None /\ fetched.status \in 500..599
    \/ fetched.name \in {"AbortError", "NetworkError"}

Attempts == Len(api.log)

\* C29: one apiCall request makes at most MAX_RETRIES + 1 = 4 fetch
\* attempts; every attempt but the last ended in a 5xx response or an
\* abort/network error, and when the call is over it has returned the last
\* response or thrown the last error, a retriable one only when no retry
\* was left.
C29_ApiCallStopsAfterFourAttempts ==
    /\ Attempts <= MAX_RETRIES + 1
    /\ \A i \in 1..(Attempts - 1) : Retriable(api.log[i])
    /\ api.pc = "done" =>
          /\ Attempts >= 1
          /\ api.result = api.log[Attempts]
          /\ Retriable(api.result) => Attempts = MAX_RETRIES + 1

\* A request gave up after its fourth attempt failed like the first three.
C29_Witness ==
    /\ api.pc = "done"
    /\ Attempts = MAX_RETRIES + 1
    /\ Retriable(api.result)

-----------------------------------------------------------------------------
\* The task is between the "saveInProgress = true" and the "finally" of a
\* saveLibrary call.
InSave(t) == t.pc \in {"hash", "autoLoad", "autoSave", "write", "list",
                       "delete"}

Saving == {id \in TaskIds : InSave(tasks[id])}

\* C27: at most one saveLibrary operation is in progress at any time (a
\* call that starts while another one is running is rejected instead of
\* entering).
C27_OneSaveAtATime == Cardinality(Saving) <= 1

AutoBackups(f) == {FileName(b) : b \in {x \in f.backups : IsAuto(x)}}

\* Task id's saveLibrary call completes successfully in this step.
SaveCompletes(id) ==
    /\ tasks[id].pc \in {"write", "list", "delete"}
    /\ tasks'[id].pc \in {"manualSave", "hash", "done"}
    /\ tasks'[id].error = None

\* C28 as stated: after a saveLibrary call that created an automatic backup
\* completes successfully, at most MAX_BACKUPS automatic backups exist.
C28_AtMostMaxBackupsAfterSave ==
    [][\A id \in TaskIds :
           SaveCompletes(id) /\ tasks[id].created
           => Cardinality(AutoBackups(files')) <= MAX_BACKUPS]_vars

\* The files of L that are among the n newest of L.
Newest(L, n) == {k \in L : Cardinality({x \in L : x.ts > k.ts}) < n}

\* C28, amended: when a saveLibrary call that created an automatic backup
\* completes successfully and its rotation listed the backups and every
\* delete it sent succeeded, the automatic backups it listed that still
\* exist are at most MAX_BACKUPS and are among the MAX_BACKUPS newest it
\* listed.
C28_RotationKeepsNewestListed ==
    [][\A id \in TaskIds :
           /\ SaveCompletes(id) /\ tasks[id].created
           /\ tasks[id].pc = "delete" /\ tasks'[id].rotation = "ok"
           => /\ {k \in tasks[id].listed : Stored(files', k)}
                     \subseteq Newest(tasks[id].listed, MAX_BACKUPS)
              /\ Cardinality({k \in tasks[id].listed : Stored(files', k)})
                     <= MAX_BACKUPS]_vars

\* A save that created an automatic backup has returned after a rotation
\* that deleted what it had to; ten automatic backups are left.
C28_Witness ==
    \E id \in TaskIds :
        /\ tasks[id].pc = "done" /\ tasks[id].result = "ok"
        /\ tasks[id].created /\ tasks[id].rotation = "ok"
        /\ Cardinality(AutoBackups(files)) = MAX_BACKUPS
        /\ \E k \in 1..MAX_BACKUPS : ~Stored(files, [ts |-> k, name |-> "auto"])

\* C30 as stated: restoreFromBackup writes library.json only after the
\* pre-restore backup has been written; when that backup failed, it has
\* written nothing to library.json.
C30_RestoreWritesOnlyAfterBackup ==
    \A id \in TaskIds :
        tasks[id].op = "restore" /\ tasks[id].wrote # {}
        => tasks[id].preBackup = "written"

\* C30, amended: restoreFromBackup writes the backup's data to library.json
\* only after the pre-restore backup has been written, and a restore whose
\* pre-restore backup failed has written nothing but, when library.json
\* was missing, the default library that loadLibrary creates.
C30_RestoredOnlyAfterBackup ==
    \A id \in TaskIds :
        tasks[id].op = "restore" /\ tasks[id].preBackup # "written"
        => tasks[id].wrote \subseteq {"default"}

\* A restore has written the backup's data and returned.
C30_Witness ==
    \E id \in TaskIds :
        /\ tasks[id].op = "restore" /\ tasks[id].result = "ok"
        /\ "restored" \in tasks[id].wrote
        /\ tasks[id].preBackup = "written"

====
